---- MODULE Spec2Model ----
(***************************************************************************)
(* Signal evaluation core of the polling market-signal detector:           *)
(* CrossDetector, FeatureCalculator, RegimeState / RegimeTracker,          *)
(* SignalEvaluator and TradingBot.process_update.                          *)
(*                                                                         *)
(* Numbers: the program computes on floats; the model uses integers and    *)
(* compares quotients by cross-multiplication, so every comparison is the  *)
(* exact one (no rounding).  A quotient reported to the caller is kept as  *)
(* the pair <<numerator, denominator>>.  Sequences are 1-based here and    *)
(* 0-based in the program: At(s, i) reads the program's s[i].              *)
(***************************************************************************)
EXTENDS Integers, Sequences, FiniteSets, TLC

\* Python's None, where the other values are objects (records)
None == [none |-> TRUE]

\* The last call observed: for process_update the regime it found (before),
\* after STEP 1 of evaluate (armed), as evaluate returned it (evaluated), and
\* what the call returned; for a function called on its own, its arguments
\* and its result.
VARIABLE ret

\* ------------------------------------------------------------------------
\* Python list helpers
\* ------------------------------------------------------------------------

\* s[i] for an index 0 <= i < len(s)
At(s, i) == s[i + 1]

\* s[-1]
Last(s) == s[Len(s)]

\* s[a:b] for 0 <= a and 0 <= b (an empty list when a >= min(b, len(s)))
Slice(s, a, b) ==
    LET hi == IF b < Len(s) THEN b ELSE Len(s)
    IN  IF a >= hi THEN << >> ELSE [k \in 1..(hi - a) |-> s[a + k]]

RECURSIVE SumSeq(_)
SumSeq(s) == IF s = << >> THEN 0 ELSE Head(s) + SumSeq(Tail(s))

Max(a, b) == IF a >= b THEN a ELSE b

Min(a, b) == IF a <= b THEN a ELSE b

\* float('nan') among the readings of a bundle (np.nan in the indicator
\* series): a number that no candle and no indicator produces.  Every
\* ordering comparison with it is false, and arithmetic on it gives it back.
nan == -1000

gt(a, b) == a # nan /\ b # nan /\ a > b

lt(a, b) == a # nan /\ b # nan /\ a < b

ge(a, b) == a # nan /\ b # nan /\ a >= b

le(a, b) == a # nan /\ b # nan /\ a <= b

\* min(s) of a non-empty list: the first entry, replaced by each later entry
\* that compares below the smallest so far.
RECURSIVE MinSeq(_)
MinSeq(s) ==
    IF Len(s) = 1 THEN Head(s)
    ELSE LET m == MinSeq(SubSeq(s, 1, Len(s) - 1))
         IN  IF lt(Last(s), m) THEN Last(s) ELSE m

\* ------------------------------------------------------------------------
\* Configuration
\* ------------------------------------------------------------------------

\* The default configuration of the repository.  expansion_threshold 0.002
\* is the quotient 2/1000.
SIGNAL_CONFIG ==
    [ cross_lookback         |-> 5,
      evaluation_window      |-> 96,
      adx_threshold_15m      |-> 25,
      adx_threshold_1h       |-> 22,
      rsi_threshold_15m      |-> 50,
      rsi_threshold_1h       |-> 50,
      structure_lookback     |-> 5,
      structure_min_holds    |-> 2,
      reclaim_lookback       |-> 4,
      expansion_threshold    |-> <<2, 1000>>,
      volume_cross_window    |-> 2,
      volume_baseline_period |-> 50,
      volume_min_ratio       |-> 2 ]

\* The same configuration with the window lengths scaled down, so that a
\* short candle series walks through detection, evaluation and expiry.  The
\* thresholds are the defaults.
ScaledConfig ==
    [ SIGNAL_CONFIG EXCEPT
        !.cross_lookback         = 2,
        !.evaluation_window      = 2,
        !.structure_lookback     = 2,
        !.structure_min_holds    = 1,
        !.reclaim_lookback       = 2,
        !.volume_cross_window    = 1,
        !.volume_baseline_period = 2 ]

\* ------------------------------------------------------------------------
\* models.py
\* ------------------------------------------------------------------------

\* CrossEvent.  open_time is not a field of the program's CrossEvent: it is
\* the exchange open time of the candle at cross_index in the bundle that
\* detect_cross was given, kept so that properties can say which candle a
\* cross index designates after the bundle has moved.
CrossEvent(symbol, timeframe, cross_index, cross_type, open_time) ==
    [ symbol      |-> symbol,
      timeframe   |-> timeframe,
      cross_index |-> cross_index,
      cross_type  |-> cross_type,
      ema_fast    |-> 50,
      ema_slow    |-> 200,
      open_time   |-> open_time ]

candles_since_cross(cross, current_index) == current_index - cross.cross_index

\* Variant of is_within_window: the boundary candle is outside the window.
is_within_window_exclusive(cross, current_index, window) ==
    candles_since_cross(cross, current_index) < window

is_within_window(cross, current_index, window) ==
    candles_since_cross(cross, current_index) <= window

\* RegimeState as created by RegimeTracker.get_regime
RegimeState(symbol, timeframe) ==
    [ symbol               |-> symbol,
      timeframe            |-> timeframe,
      active_cross         |-> None,
      last_check_index     |-> 0,
      sent_early_alert     |-> FALSE,
      sent_confirmed_alert |-> FALSE ]

reset(regime) ==
    [ regime EXCEPT !.active_cross = None,
                    !.sent_early_alert = FALSE,
                    !.sent_confirmed_alert = FALSE ]

set_cross(regime, cross_event) ==
    [ regime EXCEPT !.active_cross = cross_event,
                    !.sent_early_alert = FALSE,
                    !.sent_confirmed_alert = FALSE ]

should_evaluate(regime, current_index, window) ==
    IF regime.active_cross = None
    THEN FALSE
    ELSE is_within_window(regime.active_cross, current_index, window)

\* ------------------------------------------------------------------------
\* cross_detector.py
\* ------------------------------------------------------------------------

\* The loop of detect_cross from iteration i on: the first index, most
\* recent first, at which the EMAs change sides.
RECURSIVE detect_cross_from(_, _, _, _, _)
detect_cross_from(symbol, timeframe, data, lookback, i) ==
    IF i >= lookback THEN None
    ELSE
      LET current_idx == Len(data.ema50) - 1
          check_idx   == current_idx - i
          prev_idx    == check_idx - 1
          fast_prev   == At(data.ema50, prev_idx)
          fast_curr   == At(data.ema50, check_idx)
          slow_prev   == At(data.ema200, prev_idx)
          slow_curr   == At(data.ema200, check_idx)
      IN  IF le(fast_prev, slow_prev) /\ gt(fast_curr, slow_curr)
          THEN CrossEvent(symbol, timeframe, check_idx, "bullish",
                          At(data.open_time, check_idx))
          ELSE IF ge(fast_prev, slow_prev) /\ lt(fast_curr, slow_curr)
          THEN CrossEvent(symbol, timeframe, check_idx, "bearish",
                          At(data.open_time, check_idx))
          ELSE detect_cross_from(symbol, timeframe, data, lookback, i + 1)

detect_cross(symbol, timeframe, data, lookback) ==
    IF Len(data.ema50) < lookback + 1 \/ Len(data.ema200) < lookback + 1
    THEN None
    ELSE detect_cross_from(symbol, timeframe, data, lookback, 0)

\* ------------------------------------------------------------------------
\* feature_calculator.py
\* ------------------------------------------------------------------------

\* a/b > c/d for b # 0 and d > 0 (the sign of b turns the comparison)
QuotGt(a, b, c, d) == IF b > 0 THEN a * d > c * b ELSE a * d < c * b

_check_trend_strength(config, data_15m, data_1h) ==
    IF data_15m.adx = << >>
    THEN [ok |-> FALSE, v15 |-> 0, v1h |-> 0]
    ELSE
      LET adx_15m    == Last(data_15m.adx)
          passed_15m == gt(adx_15m, config.adx_threshold_15m)
      IN  IF data_1h.adx = << >>
          THEN [ok |-> FALSE, v15 |-> adx_15m, v1h |-> 0]
          ELSE
            LET adx_1h    == Last(data_1h.adx)
                passed_1h == gt(adx_1h, config.adx_threshold_1h)
            IN  [ok |-> passed_15m /\ passed_1h, v15 |-> adx_15m, v1h |-> adx_1h]

_check_momentum_bias(config, data_15m, data_1h) ==
    IF data_15m.rsi = << >>
    THEN [ok |-> FALSE, v15 |-> 0, v1h |-> 0]
    ELSE
      LET rsi_15m    == Last(data_15m.rsi)
          passed_15m == gt(rsi_15m, config.rsi_threshold_15m)
      IN  IF data_1h.rsi = << >>
          THEN [ok |-> FALSE, v15 |-> rsi_15m, v1h |-> 0]
          ELSE
            LET rsi_1h    == Last(data_1h.rsi)
                passed_1h == gt(rsi_1h, config.rsi_threshold_1h)
            IN  [ok |-> passed_15m /\ passed_1h, v15 |-> rsi_15m, v1h |-> rsi_1h]

\* Variant of _check_structure_hold: the count goes on from the count the
\* previous calculate_all_features call reached (at most lookback).
_check_structure_hold_counting_on(config, data) ==
    LET lookback  == config.structure_lookback
        min_holds == config.structure_min_holds
        previous  == IF ret.call = "calculate_all_features"
                     THEN ret.features.hold_count ELSE 0
    IN  IF Len(data.close) < lookback \/ Len(data.ema200) < lookback
        THEN [ok |-> FALSE, hold_count |-> 0]
        ELSE
          LET hold_count ==
                Min(lookback, previous +
                  Cardinality({ i \in 1..lookback :
                    gt(At(data.close, Len(data.close) - i),
                       At(data.ema200, Len(data.ema200) - i)) }))
          IN  [ok |-> hold_count >= min_holds, hold_count |-> hold_count]

_check_structure_hold(config, data) ==
    LET lookback  == config.structure_lookback
        min_holds == config.structure_min_holds
    IN  IF Len(data.close) < lookback \/ Len(data.ema200) < lookback
        THEN [ok |-> FALSE, hold_count |-> 0]
        ELSE
          LET hold_count ==
                Cardinality({ i \in 1..lookback :
                    gt(At(data.close, Len(data.close) - i),
                       At(data.ema200, Len(data.ema200) - i)) })
          IN  [ok |-> hold_count >= min_holds, hold_count |-> hold_count]

_check_reclaim_pattern(config, data) ==
    LET lookback == config.reclaim_lookback
    IN  IF Len(data.close) < lookback \/ Len(data.ema200) < lookback
        THEN FALSE
        ELSE
          LET recent_lows   == Slice(data.close, Len(data.close) - lookback,
                                     Len(data.close) - 1)
              recent_ema200 == Slice(data.ema200, Len(data.ema200) - lookback,
                                     Len(data.ema200) - 1)
              \* min() of an empty slice is replaced by +inf on both sides
              was_below     == IF recent_lows = << >> \/ recent_ema200 = << >>
                               THEN FALSE
                               ELSE lt(MinSeq(recent_lows),
                                       MinSeq(recent_ema200))
              current_above == gt(Last(data.close), Last(data.ema200))
          IN  was_below /\ current_above

_check_ema_expansion(config, data) ==
    IF data.ema50 = << >> \/ data.ema200 = << >>
    THEN [ok |-> FALSE, spread |-> <<0, 1>>]
    ELSE
      LET ema50_current  == Last(data.ema50)
          ema200_current == Last(data.ema200)
      IN  IF ema200_current = 0
          THEN [ok |-> FALSE, spread |-> <<0, 1>>]
          ELSE IF ema50_current = nan \/ ema200_current = nan
          THEN \* nan > expansion_threshold
               [ok |-> FALSE, spread |-> <<nan, 1>>]
          ELSE [ok |-> QuotGt(ema50_current - ema200_current, ema200_current,
                              config.expansion_threshold[1],
                              config.expansion_threshold[2]),
                spread |-> <<ema50_current - ema200_current, ema200_current>>]

\* Variant of _check_slope_filter: an EMA200 equal to the one at the cross
\* passes.
_check_slope_filter_not_falling(data, cross_event) ==
    LET cross_index   == cross_event.cross_index
        current_index == Len(data.ema200) - 1
    IN  IF cross_index >= Len(data.ema200) \/ current_index < 0
        THEN [ok |-> FALSE, change |-> <<0, 1>>]
        ELSE IF data.ema200 = << >> \/ Len(data.ema200) < cross_index + 1
        THEN [ok |-> FALSE, change |-> <<0, 1>>]
        ELSE
          LET ema200_at_cross == At(data.ema200, cross_index)
              ema200_now      == At(data.ema200, current_index)
          IN  IF ema200_at_cross = 0
              THEN [ok |-> FALSE, change |-> <<0, 1>>]
              ELSE IF ema200_now = nan \/ ema200_at_cross = nan
              THEN [ok |-> FALSE, change |-> <<nan, 1>>]
              ELSE [ok |-> ema200_now >= ema200_at_cross,
                    change |-> <<ema200_now - ema200_at_cross, ema200_at_cross>>]

_check_slope_filter(data, cross_event) ==
    LET cross_index   == cross_event.cross_index
        current_index == Len(data.ema200) - 1
    IN  IF cross_index >= Len(data.ema200) \/ current_index < 0
        THEN [ok |-> FALSE, change |-> <<0, 1>>]
        ELSE IF data.ema200 = << >> \/ Len(data.ema200) < cross_index + 1
        THEN [ok |-> FALSE, change |-> <<0, 1>>]
        ELSE
          LET ema200_at_cross == At(data.ema200, cross_index)
              ema200_now      == At(data.ema200, current_index)
          IN  IF ema200_at_cross = 0
              THEN [ok |-> FALSE, change |-> <<0, 1>>]
              ELSE IF ema200_now = nan \/ ema200_at_cross = nan
              THEN \* nan > x and x > nan are false
                   [ok |-> FALSE, change |-> <<nan, 1>>]
              ELSE [ok |-> ema200_now > ema200_at_cross,
                    change |-> <<ema200_now - ema200_at_cross, ema200_at_cross>>]

\* Volumes are never negative (exchange data), so both averages are >= 0.
_calculate_volume_score(config, data, cross_event) ==
    LET cross_index     == cross_event.cross_index
        cross_window    == config.volume_cross_window
        baseline_period == config.volume_baseline_period
        min_ratio       == config.volume_min_ratio
        cross_start     == Max(0, cross_index - cross_window)
        cross_end       == Min(Len(data.volume), cross_index + cross_window + 1)
        volume_at_cross == Slice(data.volume, cross_start, cross_end)
        baseline_end    == cross_start
        baseline_start  == Max(0, baseline_end - baseline_period)
        volume_baseline == Slice(data.volume, baseline_start, baseline_end)
    IN  IF Len(volume_at_cross) < 1
        THEN [score |-> 0, ratio |-> <<0, 1>>, exc |-> "none"]
        ELSE IF Len(volume_baseline) < baseline_period \div 2
        THEN [score |-> 0, ratio |-> <<0, 1>>, exc |-> "none"]
        ELSE IF Len(volume_baseline) = 0
        THEN \* sum(volume_baseline) / len(volume_baseline) divides by zero
             [score |-> 0, ratio |-> <<0, 1>>, exc |-> "ZeroDivisionError"]
        ELSE IF SumSeq(volume_baseline) = 0
        THEN [score |-> 0, ratio |-> <<0, 1>>, exc |-> "none"]
        ELSE
          \* avg_cross / avg_baseline
          LET num == SumSeq(volume_at_cross) * Len(volume_baseline)
              den == SumSeq(volume_baseline) * Len(volume_at_cross)
          IN  [score |-> IF num >= min_ratio * den THEN 1 ELSE 0,
               ratio |-> <<num, den>>,
               exc   |-> "none"]

\* The exception that leaves calculate_all_features ("none" when it returns).
calculate_all_features_exc(config, data_15m, data_1h, cross_event) ==
    _calculate_volume_score(config, data_15m, cross_event).exc

calculate_all_features(config, data_15m, data_1h, cross_event) ==
    LET trend     == _check_trend_strength(config, data_15m, data_1h)
        momentum  == _check_momentum_bias(config, data_15m, data_1h)
        structure == _check_structure_hold(config, data_15m)
        expansion == _check_ema_expansion(config, data_15m)
        slope     == _check_slope_filter(data_15m, cross_event)
        volume    == _calculate_volume_score(config, data_15m, cross_event)
    IN  [ trend_ok         |-> trend.ok,
          adx_value_15m    |-> trend.v15,
          adx_value_1h     |-> trend.v1h,
          momentum_ok      |-> momentum.ok,
          rsi_value_15m    |-> momentum.v15,
          rsi_value_1h     |-> momentum.v1h,
          structure_ok     |-> structure.ok,
          hold_count       |-> structure.hold_count,
          reclaim          |-> _check_reclaim_pattern(config, data_15m),
          expanding        |-> expansion.ok,
          expansion_spread |-> expansion.spread,
          slope_rising     |-> slope.ok,
          slope_ratio      |-> slope.change,
          volume_score     |-> volume.score,
          volume_ratio     |-> volume.ratio ]

\* ------------------------------------------------------------------------
\* signal_evaluator.py
\* ------------------------------------------------------------------------

Signal(symbol, timeframe, features, cross_event, current_price, current_ema200) ==
    [ symbol         |-> symbol,
      timeframe      |-> timeframe,
      signal_type    |-> "confirmed",
      score          |-> 10,
      max_score      |-> 10,
      features       |-> features,
      cross_event    |-> cross_event,
      current_price  |-> current_price,
      current_ema200 |-> current_ema200 ]

\* Variant of install_cross: a cross is installed only into an idle regime.
install_cross_if_idle(regime_state, new_cross, current_index) ==
    IF new_cross # None /\ new_cross.cross_type = "bullish"
       /\ regime_state.active_cross = None
    THEN [ set_cross(regime_state, new_cross)
             EXCEPT !.last_check_index = current_index ]
    ELSE regime_state

\* Variant of install_cross: a cross of either direction is installed.
install_cross_any(regime_state, new_cross, current_index) ==
    IF new_cross # None
    THEN [ set_cross(regime_state, new_cross)
             EXCEPT !.last_check_index = current_index ]
    ELSE regime_state

\* STEP 1 of evaluate: a bullish cross found by the detector is installed.
install_cross(regime_state, new_cross, current_index) ==
    IF new_cross # None /\ new_cross.cross_type = "bullish"
    THEN [ set_cross(regime_state, new_cross)
             EXCEPT !.last_check_index = current_index ]
    ELSE regime_state

\* Variant of expire: the cross is cleared and the alert flags are kept.
expire_keeps_flags(regime_state, current_index, evaluation_window) ==
    IF regime_state.active_cross # None
       /\ candles_since_cross(regime_state.active_cross, current_index)
              > evaluation_window
    THEN [regime_state EXCEPT !.active_cross = None]
    ELSE regime_state

\* STEP 2 of evaluate, the branch taken when should_evaluate is false: the
\* regime is reset when its cross is older than the window.
expire(regime_state, current_index, evaluation_window) ==
    IF regime_state.active_cross # None
       /\ candles_since_cross(regime_state.active_cross, current_index)
              > evaluation_window
    THEN reset(regime_state)
    ELSE regime_state

\* STEP 4 of evaluate: the compulsory criteria.
\* Variant of all_criteria_met: structure hold is required as well.
all_criteria_met_with_structure(features) ==
    /\ features.trend_ok
    /\ features.momentum_ok
    /\ features.structure_ok
    /\ features.expanding
    /\ features.slope_rising
    /\ features.volume_score = 1

all_criteria_met(features) ==
    /\ features.trend_ok
    /\ features.momentum_ok
    /\ features.expanding
    /\ features.slope_rising
    /\ features.volume_score = 1

\* evaluate returns (signal, regime_state).  The result here also carries
\*   armed:    the regime as STEP 1 left it;
\*   features: the local `features`, None when the call returns before
\*             computing it;
\*   exc:      the exception that left the call ("none" when it returned);
\*             the regime is then the object as mutated so far.
Evaluated(signal, regime_state, armed, features, exc) ==
    [ signal   |-> signal,
      regime   |-> regime_state,
      armed    |-> armed,
      features |-> features,
      exc      |-> exc ]

\* Variant of evaluate_criteria: a rejection resets the regime.
evaluate_criteria_reset_on_reject(symbol, timeframe, data_15m, armed, current_index, features) ==
    IF data_15m.close = << >> \/ data_15m.ema200 = << >>
    THEN Evaluated(None, armed, armed, features, "IndexError")
    ELSE IF le(Last(data_15m.close), Last(data_15m.ema200))
            \/ ~all_criteria_met(features)
    THEN Evaluated(None, reset(armed), armed, features, "none")
    ELSE Evaluated(Signal(symbol, timeframe, features, armed.active_cross,
                          Last(data_15m.close), Last(data_15m.ema200)),
                   [armed EXCEPT !.last_check_index = current_index],
                   armed, features, "none")

\* STEP 4 of evaluate: the price precondition, the compulsory criteria and
\* the Signal.  `armed` is the regime after STEP 1, features the result of
\* STEP 3.
evaluate_criteria(symbol, timeframe, data_15m, armed, current_index, features) ==
    IF data_15m.close = << >> \/ data_15m.ema200 = << >>
    THEN Evaluated(None, armed, armed, features, "IndexError")
    ELSE IF le(Last(data_15m.close), Last(data_15m.ema200))
    THEN Evaluated(None, armed, armed, features, "none")
    ELSE IF ~all_criteria_met(features)
    THEN Evaluated(None, armed, armed, features, "none")
    ELSE Evaluated(Signal(symbol, timeframe, features, armed.active_cross,
                          Last(data_15m.close), Last(data_15m.ema200)),
                   [armed EXCEPT !.last_check_index = current_index],
                   armed, features, "none")

\* STEP 2 and STEP 3 of evaluate, from the regime `armed` that STEP 1 left.
evaluate_window(config, symbol, timeframe, data_15m, data_1h, armed, current_index) ==
    IF ~should_evaluate(armed, current_index, config.evaluation_window)
    THEN Evaluated(None, expire(armed, current_index, config.evaluation_window),
                   armed, None, "none")
    ELSE IF calculate_all_features_exc(config, data_15m, data_1h,
                                       armed.active_cross) # "none"
    THEN Evaluated(None, armed, armed, None,
                   calculate_all_features_exc(config, data_15m, data_1h,
                                              armed.active_cross))
    ELSE evaluate_criteria(symbol, timeframe, data_15m, armed, current_index,
             calculate_all_features(config, data_15m, data_1h, armed.active_cross))

evaluate(config, symbol, timeframe, data_15m, data_1h, regime_state) ==
    evaluate_window(config, symbol, timeframe, data_15m, data_1h,
        install_cross(regime_state,
                      detect_cross(symbol, timeframe, data_15m, config.cross_lookback),
                      Len(data_15m.close) - 1),
        Len(data_15m.close) - 1)

\* Variant of should_alert: the alert flag is not consulted.
should_alert_ignoring_flag(signal, regime_state) ==
    IF signal = None
    THEN [should_send |-> FALSE, alert_type |-> "none"]
    ELSE [should_send |-> TRUE, alert_type |-> "confirmed"]

should_alert(signal, regime_state) ==
    IF signal = None
    THEN [should_send |-> FALSE, alert_type |-> "none"]
    ELSE IF ~regime_state.sent_confirmed_alert
    THEN [should_send |-> TRUE, alert_type |-> "confirmed"]
    ELSE [should_send |-> FALSE, alert_type |-> "none"]

\* The alert step of process_candle_update: the flag is set when the alert
\* is due.
mark_alert(regime_state, decision) ==
    IF decision.should_send /\ decision.alert_type = "confirmed"
    THEN [regime_state EXCEPT !.sent_confirmed_alert = TRUE]
    ELSE regime_state

\* process_candle_update after its call of evaluate returned ev with
\* should_alert's answer `decision`.
alert_step(ev, decision) ==
    [ signal       |-> ev.signal,
      should_alert |-> decision.should_send,
      alert_type   |-> decision.alert_type,
      regime       |-> mark_alert(ev.regime, decision),
      armed        |-> ev.armed,
      evaluated    |-> ev.regime,
      features     |-> ev.features,
      exc          |-> "none" ]

\* process_candle_update from the result ev of its call of evaluate.
after_evaluate(ev) ==
    IF ev.exc # "none"
    THEN [ signal |-> None, should_alert |-> FALSE, alert_type |-> "none",
           regime |-> ev.regime, armed |-> ev.armed, evaluated |-> ev.regime,
           features |-> ev.features, exc |-> ev.exc ]
    ELSE alert_step(ev, should_alert(ev.signal, ev.regime))

process_candle_update(config, symbol, timeframe, data_15m, data_1h, regime_state) ==
    after_evaluate(evaluate(config, symbol, timeframe, data_15m, data_1h,
                            regime_state))

\* ------------------------------------------------------------------------
\* regime_tracker.py
\* ------------------------------------------------------------------------

\* str.upper() / str.lower() on the identifiers the model feeds in
upper(s) ==
    IF s \in {"btcusdt", "BtcUsdt"} THEN "BTCUSDT"
    ELSE IF s = "ethusdt" THEN "ETHUSDT"
    ELSE s

lower(s) == IF s = "15M" THEN "15m" ELSE IF s = "1H" THEN "1h" ELSE s

\* Variant of _get_key: the identifiers are taken as spelled.
_get_key_as_spelled(symbol, timeframe) == <<symbol, timeframe>>

_get_key(symbol, timeframe) == <<upper(symbol), lower(timeframe)>>

\* A RegimeState object: the state with the identity of the object, id, the
\* number of objects the table held when this one was created (objects are
\* never removed from the table).  Every method of RegimeState and every
\* step of evaluate changes fields of the object it is given, so the id
\* stays; a copy would be another object.
NewObject(state, id) == state @@ ("id" :> id)

\* The table after get_regime: the entry is created when it is missing.
\* The state returned is the entry at _get_key(symbol, timeframe).
get_regime(regimes, symbol, timeframe) ==
    LET key == _get_key(symbol, timeframe)
    IN  IF key \in DOMAIN regimes
        THEN regimes
        ELSE [k \in DOMAIN regimes \cup {key} |->
                IF k = key
                THEN NewObject(RegimeState(key[1], key[2]),
                               Cardinality(DOMAIN regimes))
                ELSE regimes[k]]

update_regime(regimes, symbol, timeframe, regime_state) ==
    LET key == _get_key(symbol, timeframe)
    IN  [k \in DOMAIN regimes \cup {key} |->
            IF k = key THEN regime_state ELSE regimes[k]]

\* reset_regime: the state is looked up (and created when missing), then reset.
reset_regime(regimes, symbol, timeframe) ==
    [ get_regime(regimes, symbol, timeframe)
        EXCEPT ![_get_key(symbol, timeframe)] = reset(@) ]

\* Variant of reset_all_regimes: the symbol is not looked at.
reset_all_regimes_every_symbol(regimes, symbol) ==
    [k \in DOMAIN regimes |-> reset(regimes[k])]

\* reset_all_regimes(symbol): None and "" both take the else branch, and the
\* model passes "" for either.
reset_all_regimes(regimes, symbol) ==
    IF symbol # ""
    THEN [k \in DOMAIN regimes |->
            IF k[1] = _get_key(symbol, "")[1] THEN reset(regimes[k])
            ELSE regimes[k]]
    ELSE [k \in DOMAIN regimes |-> reset(regimes[k])]

\* ------------------------------------------------------------------------
\* The exchange and the notifier (outside the core: their answers are inputs)
\* ------------------------------------------------------------------------

\* Most candles the exchange produces for a symbol in a run of the model.
MaxCandles == 6

\* Candles a fetch returns at most (run_once passes limit=500).
FetchLimit == 6

\* Most candles that close between two fetches.
MaxNewCandles == 1

\* Most process_update calls in a run of the model.
MaxEvaluations == 4

\* One 15m candle with its indicator values:
\*   EMA50 below EMA200, no reading passes, low volume;
\*   EMA50 above EMA200 (EMA200 = 100), every 15m reading passes;
\*   the same with EMA200 = 105: the readings of the acceptance scenario.
CandleRows ==
    { [close |->  98, volume |-> 1, ema50 |->  99, ema200 |-> 100, rsi |-> 40, adx |-> 20],
      [close |-> 102, volume |-> 4, ema50 |-> 101, ema200 |-> 100, rsi |-> 60, adx |-> 30],
      [close |-> 110, volume |-> 4, ema50 |-> 110, ema200 |-> 105, rsi |-> 60, adx |-> 30] }

\* The latest 1h candle: ADX 25 passes the 1h threshold, ADX 22 is on it.
HourRows ==
    { [close |-> 110, volume |-> 4, ema50 |-> 110, ema200 |-> 105, rsi |-> 55, adx |-> 25],
      [close |-> 110, volume |-> 4, ema50 |-> 110, ema200 |-> 105, rsi |-> 55, adx |-> 22] }

\* The symbol as the caller spells it (process_update upper-cases it).
SymbolInputs == {"btcusdt"}

\* IndicatorData(timeframe) with empty series.  open_time is the kline
\* column of that name (a candle's position in the exchange's history); the
\* program drops it and the model keeps it to name candles.
IndicatorData(timeframe) ==
    [ timeframe |-> timeframe,
      open_time |-> << >>,
      close     |-> << >>,
      volume    |-> << >>,
      ema50     |-> << >>,
      ema200    |-> << >>,
      rsi       |-> << >>,
      adx       |-> << >> ]

\* One more closed candle at the end of a series.
AppendCandle(data, row) ==
    [ data EXCEPT
        !.open_time = Append(@, IF @ = << >> THEN 0 ELSE Last(@) + 1),
        !.close     = Append(@, row.close),
        !.volume    = Append(@, row.volume),
        !.ema50     = Append(@, row.ema50),
        !.ema200    = Append(@, row.ema200),
        !.rsi       = Append(@, row.rsi),
        !.adx       = Append(@, row.adx) ]

RECURSIVE AppendCandles(_, _)
AppendCandles(data, rows) ==
    IF rows = << >> THEN data
    ELSE AppendCandles(AppendCandle(data, Head(rows)), Tail(rows))

\* The last `limit` candles of a series: what the exchange returns for limit.
LastCandles(data, limit) ==
    LET n == Len(data.close)
        d == IF n > limit THEN n - limit ELSE 0
    IN  [ data EXCEPT
            !.open_time = SubSeq(@, d + 1, n),
            !.close     = SubSeq(@, d + 1, n),
            !.volume    = SubSeq(@, d + 1, n),
            !.ema50     = SubSeq(@, d + 1, n),
            !.ema200    = SubSeq(@, d + 1, n),
            !.rsi       = SubSeq(@, d + 1, n),
            !.adx       = SubSeq(@, d + 1, n) ]

\* The bundle a fetch returns when `rows` have closed since the bundle `prev`.
fetch_and_calculate_indicators(prev, rows, limit) ==
    LastCandles(AppendCandles(prev, rows), limit)

\* ------------------------------------------------------------------------
\* trading_bot.py: the state of a TradingBot and process_update
\* ------------------------------------------------------------------------

VARIABLES
    market_data,    \* TradingBot.market_data: symbol -> timeframe -> bundle
    regimes,        \* RegimeTracker._regimes: (symbol, timeframe) -> RegimeState
    stats,          \* TradingBot.stats
    outbox,         \* the alerts handed to telegram.send_alert, oldest first
    cycle           \* the process_all_updates call in progress: its input,
                    \* the symbols its loop has still to visit, and the
                    \* symbols it has called process_update for

vars == <<market_data, regimes, stats, ret, outbox, cycle>>

EmptyDict == [k \in {} |-> None]

\* dict[key] += 1, the key created at 0 when missing
Incr(dict, key) ==
    [k \in DOMAIN dict \cup {key} |->
        IF k = key THEN (IF key \in DOMAIN dict THEN dict[key] ELSE 0) + 1
        ELSE dict[k]]

NoCall ==
    [ call         |-> "none",
      symbol       |-> "",
      timeframe    |-> "",
      before       |-> None,
      armed        |-> None,
      evaluated    |-> None,
      signal       |-> None,
      should_alert |-> FALSE,
      alert_type   |-> "none",
      features     |-> None,
      alert_sent   |-> FALSE,
      result       |-> None,
      exc          |-> "none" ]

\* TradingBot.stats as __init__ leaves it.
InitialStats ==
    [ total_evaluations     |-> 0,
      crosses_detected      |-> 0,
      confirmed_alerts_sent |-> 0,
      signals_by_symbol     |-> EmptyDict,
      signals_by_timeframe  |-> EmptyDict ]

\* No process_all_updates call yet.
NoCycle ==
    [ number  |-> 0,
      input   |-> EmptyDict,
      pending |-> << >>,
      done    |-> << >>,
      results |-> << >>,
      raised  |-> FALSE,
      start   |-> [ market_data |-> EmptyDict,
                    regimes     |-> EmptyDict,
                    stats       |-> InitialStats,
                    outbox      |-> << >> ] ]

Init ==
    /\ market_data = EmptyDict
    /\ regimes = EmptyDict
    /\ stats = InitialStats
    /\ ret = NoCall
    /\ outbox = << >>
    /\ cycle = NoCycle

\* update_market_data twice: the bundles of both timeframes are stored.
update_market_data(md, symbol, data_15m, data_1h) ==
    [k \in DOMAIN md \cup {upper(symbol)} |->
        IF k = upper(symbol)
        THEN [t \in {"15m", "1h"} |-> IF t = "15m" THEN data_15m ELSE data_1h]
        ELSE md[k]]

\* telegram.send_alert: `delivered` is the answer of send_message.
send_alert(alert_type, delivered) ==
    IF alert_type = "confirmed" THEN delivered ELSE FALSE

\* The stats after the call.
update_stats(st, symbol, timeframe, signal, alert_sent) ==
    [ st EXCEPT
        !.total_evaluations     = @ + 1,
        !.signals_by_symbol     = IF signal # None THEN Incr(@, symbol) ELSE @,
        !.signals_by_timeframe  = IF signal # None THEN Incr(@, timeframe) ELSE @,
        !.confirmed_alerts_sent = IF alert_sent THEN @ + 1 ELSE @ ]

\* What process_update leaves behind and returns once the notifier has
\* answered (alert_sent is FALSE when it was not asked).
finish_update(symbol, timeframe, data_15m, data_1h, looked_up, before, pcu, alert_sent) ==
    /\ market_data' = update_market_data(market_data, symbol, data_15m, data_1h)
    /\ IF pcu.exc # "none"
       THEN \* the exception leaves process_update; the regime object in
            \* the table keeps what evaluate did to it
            /\ regimes' = [looked_up EXCEPT
                             ![_get_key(symbol, timeframe)] = pcu.regime]
            /\ UNCHANGED <<stats, outbox>>
       ELSE /\ regimes' = update_regime(looked_up, symbol, timeframe, pcu.regime)
            /\ stats' = update_stats(stats, symbol, timeframe, pcu.signal,
                                     alert_sent)
            /\ outbox' = IF pcu.should_alert
                         THEN Append(outbox,
                                [ symbol    |-> symbol,
                                  open_time |-> pcu.signal.cross_event.open_time,
                                  delivered |-> alert_sent ])
                         ELSE outbox
    /\ ret' = [ call         |-> "process_update",
                symbol       |-> symbol,
                timeframe    |-> timeframe,
                before       |-> before,
                armed        |-> pcu.armed,
                evaluated    |-> pcu.evaluated,
                signal       |-> pcu.signal,
                should_alert |-> pcu.should_alert,
                alert_type   |-> pcu.alert_type,
                features     |-> pcu.features,
                alert_sent   |-> alert_sent,
                result       |-> IF alert_sent
                                 THEN [ symbol     |-> symbol,
                                        timeframe  |-> timeframe,
                                        alert_type |-> pcu.alert_type,
                                        score      |-> pcu.signal.score ]
                                 ELSE None,
                exc          |-> pcu.exc ]

\* process_update from the table `looked_up` that get_regime left and the
\* answer pcu of process_candle_update.  The notifier is asked only when
\* should_alert is true; its answer is either.
notify(symbol, timeframe, data_15m, data_1h, looked_up, before, pcu) ==
    \E delivered \in (IF pcu.should_alert THEN BOOLEAN ELSE {FALSE}) :
      finish_update(symbol, timeframe, data_15m, data_1h, looked_up, before,
                    pcu, pcu.should_alert /\ send_alert(pcu.alert_type, delivered))

\* process_update once get_regime has answered.
evaluate_pair(config, symbol, timeframe, data_15m, data_1h, looked_up) ==
    notify(symbol, timeframe, data_15m, data_1h, looked_up,
           looked_up[_get_key(symbol, timeframe)],
           process_candle_update(config, symbol, timeframe, data_15m, data_1h,
                                 looked_up[_get_key(symbol, timeframe)]))

\* TradingBot.process_update(symbol_in, timeframe, data_15m, data_1h) of a
\* bot whose SignalEvaluator was built from `config`.
process_update(config, symbol_in, timeframe, data_15m, data_1h) ==
    evaluate_pair(config, upper(symbol_in), timeframe, data_15m, data_1h,
                  get_regime(regimes, upper(symbol_in), timeframe))

\* The 15m bundle last fetched for a symbol (none before the first fetch).
Fetched15m(symbol) ==
    IF upper(symbol) \in DOMAIN market_data
    THEN market_data[upper(symbol)]["15m"]
    ELSE IndicatorData("15m")

\* One cycle for one symbol: the exchange returns the 15m series as it now
\* is (the first fetch finds any history, a later one finds the candles that
\* closed since the last) and the latest 1h candle, and process_update runs.
ProcessUpdate ==
    \E symbol_in \in SymbolInputs, hour \in HourRows :
      LET prev  == Fetched15m(symbol_in)
          first == prev.close = << >>
          seen  == IF first THEN 0 ELSE Last(prev.open_time) + 1
      IN  /\ stats.total_evaluations < MaxEvaluations
          /\ UNCHANGED cycle
          /\ \E n \in (IF first THEN 1..FetchLimit ELSE 0..MaxNewCandles) :
               /\ seen + n <= MaxCandles
               /\ \E rows \in [1..n -> CandleRows] :
                    process_update(ScaledConfig, symbol_in, "15m",
                        fetch_and_calculate_indicators(prev, rows, FetchLimit),
                        AppendCandle(IndicatorData("1h"), hour))

Next == ProcessUpdate

Spec == Init /\ [][Next]_vars

\* ------------------------------------------------------------------------
\* Properties of process_update
\* ------------------------------------------------------------------------

\* The last step was a process_update call that returned.
Called == ret.call = "process_update" /\ ret.exc = "none"

\* The regime of the call's pair as the call left it in the table.
After == regimes[_get_key(ret.symbol, ret.timeframe)]

\* The bundles the call was given.
Given15m == market_data[ret.symbol]["15m"]

Given1h == market_data[ret.symbol]["1h"]

CurrentIndex == Len(Given15m.close) - 1

\* What detect_cross answers on the 15m bundle the call was given.
Detected ==
    detect_cross(ret.symbol, ret.timeframe, Given15m, ScaledConfig.cross_lookback)

BullishDetected == Detected # None /\ Detected.cross_type = "bullish"

BearishDetected == Detected # None /\ Detected.cross_type = "bearish"

\* The regime the call found had a cross older than the evaluation window.
FoundExpired ==
    /\ ret.before.active_cross # None
    /\ CurrentIndex - ret.before.active_cross.cross_index
           > ScaledConfig.evaluation_window

\* The regime the call found had a cross inside the evaluation window.
FoundInWindow ==
    /\ ret.before.active_cross # None
    /\ CurrentIndex - ret.before.active_cross.cross_index
           <= ScaledConfig.evaluation_window

\* C1: at most one update returns should_alert = true for a given cross
\* candle: no two alerts handed to the notifier are for the same candle.
AtMostOneAlertPerCross ==
    \A i, j \in 1..Len(outbox) :
        outbox[i].open_time = outbox[j].open_time => i = j

\* C2: should_alert is true, with alert_type 'confirmed', exactly when
\* evaluate returned a Signal and sent_confirmed_alert was false after
\* evaluate, and the call then leaves the flag true; with no Signal, or with
\* the flag already true and no bullish cross installed in the call,
\* should_alert is false, alert_type is 'none' and the alert step leaves the
\* regime as evaluate returned it.
AlertDecision ==
    Called =>
      /\ ret.should_alert
           = (ret.signal # None /\ ~ret.evaluated.sent_confirmed_alert)
      /\ ret.should_alert =>
           /\ ret.alert_type = "confirmed"
           /\ After = [ret.evaluated EXCEPT !.sent_confirmed_alert = TRUE]
      /\ ~ret.should_alert =>
           /\ ret.alert_type = "none"
           /\ After = ret.evaluated
      /\ (ret.signal = None
            \/ (ret.before.sent_confirmed_alert /\ ~BullishDetected))
           => ~ret.should_alert

\* C2's case: an update alerted and left the flag set.
AlertDecisionWitness ==
    /\ Called
    /\ ret.should_alert
    /\ ret.alert_type = "confirmed"
    /\ ~ret.evaluated.sent_confirmed_alert
    /\ After.sent_confirmed_alert

\* C3: a bullish cross returned by detect_cross becomes the active cross
\* whatever the regime was, both alert flags are false right after the
\* installation, and last_check_index is the current index.
BullishCrossInstalled ==
    (Called /\ BullishDetected) =>
      /\ ret.armed.active_cross = Detected
      /\ ~ret.armed.sent_confirmed_alert
      /\ ~ret.armed.sent_early_alert
      /\ ret.armed.last_check_index = CurrentIndex
      /\ After.active_cross = Detected

\* C3's case: the cross was installed over a regime that had already alerted.
BullishCrossInstalledWitness ==
    /\ Called
    /\ BullishDetected
    /\ ret.before.active_cross # None
    /\ ret.before.sent_confirmed_alert
    /\ After.active_cross = Detected

\* C4: every active cross is bullish, and an update in which detect_cross
\* returns a bearish cross has, after detection, the regime it found.
LongOnlyArming ==
    /\ \A k \in DOMAIN regimes :
         regimes[k].active_cross # None
           => regimes[k].active_cross.cross_type = "bullish"
    /\ (Called /\ BearishDetected) => ret.armed = ret.before

\* C4's case: a bearish cross was detected while a bullish cross was active.
LongOnlyArmingWitness ==
    /\ Called
    /\ BearishDetected
    /\ ret.before.active_cross # None
    /\ ret.before.active_cross.cross_type = "bullish"
    /\ ret.armed.active_cross = ret.before.active_cross

\* C5: an update that finds a cross older than evaluation_window, and no
\* new bullish cross, returns no Signal, leaves the regime reset (no active
\* cross, alert flag false) whether or not it had alerted, and computes no
\* features.
WindowExpiry ==
    (Called /\ FoundExpired /\ ~BullishDetected) =>
      /\ ret.signal = None
      /\ ~ret.should_alert
      /\ ret.features = None
      /\ After.active_cross = None
      /\ ~After.sent_confirmed_alert
      /\ ~After.sent_early_alert

\* C5's case: the window of a regime that had alerted expired.
WindowExpiryWitness ==
    /\ Called
    /\ FoundExpired
    /\ ~BullishDetected
    /\ ret.before.sent_confirmed_alert
    /\ After.active_cross = None

\* C7: an update inside the window that detects no bullish cross and
\* rejects leaves active_cross and sent_confirmed_alert as it found them;
\* no attribute but last_check_index may differ.
RejectionKeepsArmed ==
    (Called /\ FoundInWindow /\ ~BullishDetected /\ ret.signal = None) =>
      /\ ret.features # None
      /\ After.active_cross = ret.before.active_cross
      /\ After.sent_confirmed_alert = ret.before.sent_confirmed_alert
      /\ [After EXCEPT !.last_check_index = 0]
           = [ret.before EXCEPT !.last_check_index = 0]

\* C7's case: the price was above EMA200 and the compulsory gate rejected.
RejectionKeepsArmedWitness ==
    /\ Called
    /\ FoundInWindow
    /\ ~BullishDetected
    /\ ret.signal = None
    /\ Last(Given15m.close) > Last(Given15m.ema200)
    /\ ~all_criteria_met(ret.features)
    /\ After.active_cross # None

\* C10: when should_alert is true and the send fails, the flag stays true,
\* process_update returns None, confirmed_alerts_sent counts only delivered
\* alerts, and no later update hands the notifier an alert for that cross.
FailedSendNotRetried ==
    /\ (Called /\ ret.should_alert /\ ~ret.alert_sent) =>
         (After.sent_confirmed_alert /\ ret.result = None)
    /\ stats.confirmed_alerts_sent
         = Cardinality({i \in 1..Len(outbox) : outbox[i].delivered})
    /\ \A i, j \in 1..Len(outbox) :
         (i < j /\ ~outbox[i].delivered)
           => outbox[j].open_time # outbox[i].open_time

\* ------------------------------------------------------------------------
\* RegimeState.should_evaluate on its own
\* ------------------------------------------------------------------------

\* Largest cross index, current index and window should_evaluate is given.
MaxCrossIndex == 4

MaxCurrentIndex == 8

MaxWindow == 3

\* The regimes evaluate can hold: idle, or armed on a bullish cross with the
\* alert flag either way.
RegimeInputs ==
    { RegimeState("BTCUSDT", "15m") }
    \cup
    { [ set_cross(RegimeState("BTCUSDT", "15m"),
                  CrossEvent("BTCUSDT", "15m", k, "bullish", k))
          EXCEPT !.sent_confirmed_alert = sent ] :
        k \in 0..MaxCrossIndex, sent \in BOOLEAN }

\* One call regime.should_evaluate(current_index, window).
CallShouldEvaluate ==
    \E regime \in RegimeInputs, current_index \in 0..MaxCurrentIndex,
       window \in 0..MaxWindow :
      /\ ret' = [ call          |-> "should_evaluate",
                  regime        |-> regime,
                  current_index |-> current_index,
                  window        |-> window,
                  result        |-> should_evaluate(regime, current_index, window) ]
      /\ UNCHANGED <<market_data, regimes, stats, outbox, cycle>>

SpecShouldEvaluate == Init /\ [][CallShouldEvaluate]_vars

\* C6: should_evaluate(current_index, window) is true iff an active cross
\* exists and current_index - cross_index <= window: true at
\* cross_index + window, false at cross_index + window + 1, false with no
\* active cross.
ShouldEvaluateInclusive ==
    ret.call = "should_evaluate" =>
      /\ ret.result
           = ( /\ ret.regime.active_cross # None
               /\ ret.current_index - ret.regime.active_cross.cross_index
                    <= ret.window )
      /\ ret.regime.active_cross = None => ~ret.result
      /\ ( /\ ret.regime.active_cross # None
           /\ ret.current_index
                = ret.regime.active_cross.cross_index + ret.window )
           => ret.result
      /\ ( /\ ret.regime.active_cross # None
           /\ ret.current_index
                = ret.regime.active_cross.cross_index + ret.window + 1 )
           => ~ret.result

\* C6's case: the call on the last candle of the window answered true.
ShouldEvaluateInclusiveWitness ==
    /\ ret.call = "should_evaluate"
    /\ ret.regime.active_cross # None
    /\ ret.window > 0
    /\ ret.current_index = ret.regime.active_cross.cross_index + ret.window
    /\ ret.result

\* ------------------------------------------------------------------------
\* The compulsory gate, criterion by criterion
\* ------------------------------------------------------------------------

\* The scaled windows, with structure hold needing both of its two candles.
GateConfig == [ScaledConfig EXCEPT !.structure_min_holds = 2]

\* A candle before the cross: EMA50 below EMA200.
GateLowRow ==
    [close |-> 990, volume |-> 1, ema50 |-> 990, ema200 |-> 1000,
     rsi |-> 40, adx |-> 20]

\* The cross candle: its EMA200 is below or equal to the later EMA200
\* (slope), its volume puts the ratio on or under volume_min_ratio.
GateCrossRows ==
    { [close |-> 1010, volume |-> v, ema50 |-> 1010, ema200 |-> e,
       rsi |-> 60, adx |-> 30] :
        v \in {3, 4}, e \in {995, 1000} }

\* The candle after the cross: its close is under or over EMA200 (structure
\* hold and reclaim).
GateMiddleRows ==
    { [close |-> c, volume |-> 1, ema50 |-> 1010, ema200 |-> 1000,
       rsi |-> 60, adx |-> 30] :
        c \in {990, 1010} }

\* The latest candle: close on or over EMA200, ADX and RSI on or over their
\* thresholds, EMA50 0.2% or 0.3% over EMA200.
GateLatestRows ==
    { [close |-> c, volume |-> 1, ema50 |-> f, ema200 |-> 1000,
       rsi |-> r, adx |-> a] :
        c \in {1000, 1010}, f \in {1002, 1003}, r \in {50, 60}, a \in {25, 30} }

\* The latest 1h candle: ADX and RSI on or over their thresholds.
GateHourRows ==
    { [close |-> 1010, volume |-> 1, ema50 |-> 1010, ema200 |-> 1000,
       rsi |-> r, adx |-> a] :
        r \in {50, 55}, a \in {22, 25} }

\* The first update: the cross is on the latest candle of the bundle.
GateArm ==
    /\ market_data = EmptyDict
    /\ UNCHANGED cycle
    /\ \E cross \in GateCrossRows, hour \in GateHourRows :
         process_update(GateConfig, "btcusdt", "15m",
             AppendCandles(IndicatorData("15m"),
                           <<GateLowRow, GateLowRow, cross>>),
             AppendCandle(IndicatorData("1h"), hour))

\* The second update, two candles later: the last candle of the window.
GateUpdate ==
    /\ market_data # EmptyDict
    /\ Len(Fetched15m("btcusdt").close) = 3
    /\ UNCHANGED cycle
    /\ \E middle \in GateMiddleRows, latest \in GateLatestRows,
          hour \in GateHourRows :
         process_update(GateConfig, "btcusdt", "15m",
             AppendCandles(Fetched15m("btcusdt"), <<middle, latest>>),
             AppendCandle(IndicatorData("1h"), hour))

GateNext == GateArm \/ GateUpdate

SpecGate == Init /\ [][GateNext]_vars

\* C8: for a regime that is should-evaluate, evaluate returns a Signal iff
\* the latest close is strictly above the latest EMA200 and trend, momentum,
\* expansion, slope and volume pass, whatever structure hold and reclaim
\* are; the Signal carries the active cross, the features, the latest close
\* and EMA200, and last_check_index becomes the current index.
CompulsoryGate ==
    ( /\ Called
      /\ should_evaluate(ret.armed, CurrentIndex, GateConfig.evaluation_window) )
    =>
      /\ (ret.signal # None)
           = ( /\ Last(Given15m.close) > Last(Given15m.ema200)
               /\ ret.features.trend_ok
               /\ ret.features.momentum_ok
               /\ ret.features.expanding
               /\ ret.features.slope_rising
               /\ ret.features.volume_score = 1 )
      /\ ret.signal # None =>
           /\ ret.signal.cross_event = ret.armed.active_cross
           /\ ret.signal.features = ret.features
           /\ ret.signal.current_price = Last(Given15m.close)
           /\ ret.signal.current_ema200 = Last(Given15m.ema200)
           /\ ret.evaluated.last_check_index = CurrentIndex
           /\ After.last_check_index = CurrentIndex

\* C8's case: a Signal was returned although structure hold failed.
CompulsoryGateWitness ==
    /\ Called
    /\ should_evaluate(ret.armed, CurrentIndex, GateConfig.evaluation_window)
    /\ ret.signal # None
    /\ ~ret.features.structure_ok
    /\ ret.features.hold_count = 1
    /\ ret.signal.cross_event = ret.armed.active_cross

\* ------------------------------------------------------------------------
\* The acceptance scenario under the default configuration
\* ------------------------------------------------------------------------

\* Candle i of a scenario bundle of n candles (prices in thousandths):
\* EMA50 crosses above EMA200 on candle 100, where EMA200 = 100; the latest
\* candle has price 110, EMA200 105, EMA50 0.5% over it, ADX 30 and RSI 60;
\* the volume is 7 on the five candles around the cross and 2 before, a
\* ratio of 3.5.
ScenarioRow(i, n) ==
    IF i < 100
    THEN [close |-> 99000, volume |-> IF i < 98 THEN 2 ELSE 7,
          ema50 |-> 99000, ema200 |-> 100000, rsi |-> 40, adx |-> 20]
    ELSE IF i = 100 \/ i < n - 1
    THEN [close |-> 101000, volume |-> IF i <= 102 THEN 7 ELSE 2,
          ema50 |-> 100500, ema200 |-> 100000, rsi |-> 60, adx |-> 30]
    ELSE [close |-> 110000, volume |-> IF i <= 102 THEN 7 ELSE 2,
          ema50 |-> 105525, ema200 |-> 105000, rsi |-> 60, adx |-> 30]

ScenarioBundle(n) ==
    [ timeframe |-> "15m",
      open_time |-> [i \in 1..n |-> i - 1],
      close     |-> [i \in 1..n |-> ScenarioRow(i - 1, n).close],
      volume    |-> [i \in 1..n |-> ScenarioRow(i - 1, n).volume],
      ema50     |-> [i \in 1..n |-> ScenarioRow(i - 1, n).ema50],
      ema200    |-> [i \in 1..n |-> ScenarioRow(i - 1, n).ema200],
      rsi       |-> [i \in 1..n |-> ScenarioRow(i - 1, n).rsi],
      adx       |-> [i \in 1..n |-> ScenarioRow(i - 1, n).adx] ]

\* The latest 1h candle of the scenario: ADX 25, RSI 55.
ScenarioHour ==
    AppendCandle(IndicatorData("1h"),
        [close |-> 110000, volume |-> 4, ema50 |-> 105525, ema200 |-> 105000,
         rsi |-> 55, adx |-> 25])

\* An update of the scenario: the bundle has grown to n candles, from the
\* cross candle being the latest (n = 101) to the 200 points of the scenario.
ScenarioUpdate ==
    /\ stats.total_evaluations < 2
    /\ UNCHANGED cycle
    /\ \E n \in 101..200 :
         /\ n > Len(Fetched15m("btcusdt").close)
         /\ process_update(SIGNAL_CONFIG, "btcusdt", "15m",
                           ScenarioBundle(n), ScenarioHour)

SpecScenario == Init /\ [][ScenarioUpdate]_vars

\* The update found the regime armed on the cross of candle 100, no alert
\* sent for it yet.
ScenarioArmed ==
    /\ Called
    /\ ret.before.active_cross # None
    /\ ret.before.active_cross.cross_index = 100
    /\ ret.before.active_cross.cross_type = "bullish"
    /\ ~ret.before.sent_confirmed_alert

\* The update alerted and left the regime in alert-sent.
ScenarioAlerted ==
    /\ ret.signal # None
    /\ ret.should_alert
    /\ After.active_cross # None
    /\ After.sent_confirmed_alert

\* C9 as stated: with the cross at index 100 of a 200-point bundle and the
\* readings of the scenario, the update emits a Signal with should_alert
\* true and leaves the regime in alert-sent.
ScenarioAt200 ==
    (ScenarioArmed /\ Len(Given15m.close) = 200) => ScenarioAlerted

\* C9 amended: with the cross at index 100 and the readings of the scenario,
\* the update emits a Signal with should_alert true and leaves the regime in
\* alert-sent when the bundle has 102 to 197 points, that is when 1 to 96
\* candles (evaluation_window) have closed since the cross.
ScenarioInWindow ==
    ( /\ ScenarioArmed
      /\ Len(Given15m.close) >= 102
      /\ Len(Given15m.close) <= 100 + SIGNAL_CONFIG.evaluation_window + 1 )
    => ScenarioAlerted

\* C9's amended case: the update on the last candle of the window alerted.
ScenarioInWindowWitness ==
    /\ ScenarioArmed
    /\ Len(Given15m.close) = 197
    /\ CurrentIndex - ret.before.active_cross.cross_index
         = SIGNAL_CONFIG.evaluation_window
    /\ ScenarioAlerted

\* ------------------------------------------------------------------------
\* RegimeTracker: the table under every call that reaches it
\* ------------------------------------------------------------------------

\* The identifiers as callers spell them.
SymbolSpellings == {"btcusdt", "BtcUsdt", "ethusdt"}

TimeframeSpellings == {"15m", "15M"}

\* Bundles for process_update: the cross on the latest candle, and one
\* passing candle later.
TrackerBundles ==
    LET low  == [close |->  98, volume |-> 1, ema50 |->  99, ema200 |-> 100,
                 rsi |-> 40, adx |-> 20]
        up   == [close |-> 102, volume |-> 4, ema50 |-> 101, ema200 |-> 100,
                 rsi |-> 60, adx |-> 30]
        pass == [close |-> 110, volume |-> 4, ema50 |-> 110, ema200 |-> 105,
                 rsi |-> 60, adx |-> 30]
    IN  { AppendCandles(IndicatorData("15m"), <<low, low, up>>),
          AppendCandles(IndicatorData("15m"), <<low, low, up, pass>>) }

TrackerHour ==
    AppendCandle(IndicatorData("1h"),
        [close |-> 110, volume |-> 4, ema50 |-> 110, ema200 |-> 105,
         rsi |-> 55, adx |-> 25])

TrackerGetRegime ==
    \E symbol \in SymbolSpellings, timeframe \in TimeframeSpellings :
      /\ regimes' = get_regime(regimes, symbol, timeframe)
      /\ ret' = [ call      |-> "get_regime",
                  symbol    |-> symbol,
                  timeframe |-> timeframe,
                  created   |-> _get_key(symbol, timeframe) \notin DOMAIN regimes,
                  result    |-> regimes'[_get_key(symbol, timeframe)] ]
      /\ UNCHANGED <<market_data, stats, outbox, cycle>>

\* update_regime as the program calls it: with the object get_regime returned.
TrackerUpdateRegime ==
    \E symbol \in SymbolSpellings, timeframe \in TimeframeSpellings :
      /\ regimes' = update_regime(get_regime(regimes, symbol, timeframe),
                        symbol, timeframe,
                        get_regime(regimes, symbol, timeframe)
                            [_get_key(symbol, timeframe)])
      /\ ret' = [ call      |-> "update_regime",
                  symbol    |-> symbol,
                  timeframe |-> timeframe ]
      /\ UNCHANGED <<market_data, stats, outbox, cycle>>

TrackerResetRegime ==
    \E symbol \in SymbolSpellings, timeframe \in TimeframeSpellings :
      /\ regimes' = reset_regime(regimes, symbol, timeframe)
      /\ ret' = [ call      |-> "reset_regime",
                  symbol    |-> symbol,
                  timeframe |-> timeframe ]
      /\ UNCHANGED <<market_data, stats, outbox, cycle>>

TrackerResetAll ==
    \E symbol \in SymbolSpellings \cup {""} :
      /\ regimes' = reset_all_regimes(regimes, symbol)
      /\ ret' = [ call |-> "reset_all_regimes", symbol |-> symbol ]
      /\ UNCHANGED <<market_data, stats, outbox, cycle>>

TrackerProcessUpdate ==
    /\ stats.total_evaluations < 2
    /\ UNCHANGED cycle
    /\ \E symbol \in SymbolSpellings, timeframe \in {"15m", "15M"},
          data_15m \in TrackerBundles :
         process_update(ScaledConfig, symbol, timeframe, data_15m, TrackerHour)

TrackerNext ==
    \/ TrackerGetRegime
    \/ TrackerUpdateRegime
    \/ TrackerResetRegime
    \/ TrackerResetAll
    \/ TrackerProcessUpdate

SpecTracker == Init /\ [][TrackerNext]_vars

\* C11: the table holds one RegimeState per normalized key (symbol in upper
\* case, timeframe in lower case) and no object twice; lookups that differ
\* in letter case return the same object; a first lookup creates an idle
\* state (no active cross, flags false, last_check_index 0); after
\* process_update the entry of the pair is the object get_regime returned.
OneRegimePerPair ==
    /\ \A k \in DOMAIN regimes :
         /\ k[1] = upper(k[1])
         /\ k[2] = lower(k[2])
         /\ regimes[k].symbol = k[1]
         /\ regimes[k].timeframe = k[2]
    /\ \A k1, k2 \in DOMAIN regimes :
         regimes[k1].id = regimes[k2].id => k1 = k2
    /\ ret.call = "get_regime" =>
         /\ ret.result = regimes[<<upper(ret.symbol), lower(ret.timeframe)>>]
         /\ \A s \in SymbolSpellings, t \in TimeframeSpellings :
              (upper(s) = upper(ret.symbol) /\ lower(t) = lower(ret.timeframe))
                => /\ get_regime(regimes, s, t) = regimes
                   /\ regimes[_get_key(s, t)].id = ret.result.id
         /\ ret.created =>
              /\ ret.result.active_cross = None
              /\ ~ret.result.sent_confirmed_alert
              /\ ~ret.result.sent_early_alert
              /\ ret.result.last_check_index = 0
    /\ Called =>
         regimes[<<upper(ret.symbol), lower(ret.timeframe)>>].id = ret.before.id

\* C11's case: a pair that process_update armed under one spelling was
\* looked up under another, and the armed object came back.
OneRegimePerPairWitness ==
    /\ ret.call = "get_regime"
    /\ ret.symbol = "BtcUsdt"
    /\ ret.timeframe = "15M"
    /\ ~ret.created
    /\ ret.result.active_cross # None
    /\ Cardinality(DOMAIN regimes) > 1

\* ------------------------------------------------------------------------
\* TradingBot.process_all_updates
\* ------------------------------------------------------------------------

\* Most process_all_updates calls in a run of the model.
MaxCycles == 2

\* The symbols of a cycle in the order of the input dict.
SymbolOrders ==
    { <<"BTCUSDT">>, <<"ETHUSDT">>,
      <<"BTCUSDT", "ETHUSDT">>, <<"ETHUSDT", "BTCUSDT">> }

\* What fetch_and_calculate_indicators returns for a symbol it has data
\* for: a bundle per interval, an interval without candles left out.
SymbolData ==
    { [t \in tfs |-> IF t = "15m" THEN data_15m ELSE TrackerHour] :
        tfs \in {{"15m", "1h"}, {"15m"}}, data_15m \in TrackerBundles }
    \cup { [t \in {"1h"} |-> TrackerHour] }

\* The test at the head of the loop body.
has_both_timeframes(symbol_data) ==
    "15m" \in DOMAIN symbol_data /\ "1h" \in DOMAIN symbol_data

\* Variant of after_skip: the loop is left at the first incomplete symbol.
after_skip_break(pending) == << >>

\* The symbols still to visit after `continue`.
after_skip(pending) == Tail(pending)

\* process_all_updates is called: results = [], the loop has the whole
\* dict before it.
ProcessAllUpdatesCall ==
    /\ cycle.pending = << >>
    /\ cycle.number < MaxCycles
    /\ \E order \in SymbolOrders :
         \E input \in [{order[i] : i \in 1..Len(order)} -> SymbolData] :
           cycle' = [ number  |-> cycle.number + 1,
                      input   |-> input,
                      pending |-> order,
                      done    |-> << >>,
                      results |-> << >>,
                      raised  |-> FALSE,
                      start   |-> [ market_data |-> market_data,
                                    regimes     |-> regimes,
                                    stats       |-> stats,
                                    outbox      |-> outbox ] ]
    /\ UNCHANGED <<market_data, regimes, stats, ret, outbox>>

\* One iteration of the loop.  An exception of process_update is not
\* caught: it ends the call.
ProcessAllUpdatesStep ==
    /\ cycle.pending # << >>
    /\ IF ~has_both_timeframes(cycle.input[Head(cycle.pending)])
       THEN /\ cycle' = [cycle EXCEPT !.pending = after_skip(@)]
            /\ UNCHANGED <<market_data, regimes, stats, ret, outbox>>
       ELSE /\ process_update(ScaledConfig, Head(cycle.pending), "15m",
                              cycle.input[Head(cycle.pending)]["15m"],
                              cycle.input[Head(cycle.pending)]["1h"])
            /\ cycle' =
                 IF ret'.exc # "none"
                 THEN [cycle EXCEPT !.pending = << >>, !.raised = TRUE]
                 ELSE [cycle EXCEPT
                         !.pending = Tail(@),
                         !.done    = Append(@, Head(cycle.pending)),
                         !.results = IF ret'.result # None
                                     THEN Append(@, ret'.result) ELSE @ ]

CycleNext == ProcessAllUpdatesCall \/ ProcessAllUpdatesStep

SpecCycle == Init /\ [][CycleNext]_vars

\* The symbols of the input of the call.
CycleSymbols == DOMAIN cycle.input

\* How often process_update was called for a symbol in the call.
TimesProcessed(symbol) ==
    Cardinality({i \in 1..Len(cycle.done) : cycle.done[i] = symbol})

\* Nothing the bot holds about the symbol differs from the start of the call.
Untouched(symbol) ==
    /\ (<<symbol, "15m">> \in DOMAIN regimes)
         = (<<symbol, "15m">> \in DOMAIN cycle.start.regimes)
    /\ <<symbol, "15m">> \in DOMAIN regimes
         => regimes[<<symbol, "15m">>] = cycle.start.regimes[<<symbol, "15m">>]
    /\ (symbol \in DOMAIN market_data)
         = (symbol \in DOMAIN cycle.start.market_data)
    /\ symbol \in DOMAIN market_data
         => market_data[symbol] = cycle.start.market_data[symbol]
    /\ (symbol \in DOMAIN stats.signals_by_symbol)
         = (symbol \in DOMAIN cycle.start.stats.signals_by_symbol)
    /\ symbol \in DOMAIN stats.signals_by_symbol
         => stats.signals_by_symbol[symbol]
              = cycle.start.stats.signals_by_symbol[symbol]
    /\ \A i \in 1..Len(outbox) :
         i > Len(cycle.start.outbox) => outbox[i].symbol # symbol

\* C12: in process_all_updates a symbol whose input lacks the 15m or the 1h
\* bundle is skipped (its regime and the statistics are as before, no alert
\* is sent for it), and every other symbol of the input is processed
\* exactly once in the call.
NoPartialBundleEvaluation ==
    /\ \A symbol \in CycleSymbols :
         ~has_both_timeframes(cycle.input[symbol])
           => (TimesProcessed(symbol) = 0 /\ Untouched(symbol))
    /\ stats.total_evaluations
         = cycle.start.stats.total_evaluations + Len(cycle.done)
    /\ (cycle.number > 0 /\ cycle.pending = << >>) =>
         /\ ~cycle.raised
         /\ \A symbol \in CycleSymbols :
              has_both_timeframes(cycle.input[symbol])
                => TimesProcessed(symbol) = 1
         /\ (\A symbol \in CycleSymbols :
               ~has_both_timeframes(cycle.input[symbol]))
              => stats = cycle.start.stats

\* C12's case: a symbol of the input had no 1h bundle and an armed regime
\* whose gate its 15m bundle would pass; the call left it armed and
\* processed the other symbol.
NoPartialBundleEvaluationWitness ==
    /\ cycle.number > 0
    /\ cycle.pending = << >>
    /\ \E first, second \in CycleSymbols :
         /\ first # second
         /\ DOMAIN cycle.input[first] = {"15m"}
         /\ Len(cycle.input[first]["15m"].close) = 4
         /\ <<first, "15m">> \in DOMAIN regimes
         /\ regimes[<<first, "15m">>].active_cross # None
         /\ ~regimes[<<first, "15m">>].sent_confirmed_alert
         /\ cycle.done = <<second>>
         /\ ret.call = "process_update"
         /\ ret.symbol = second

\* ------------------------------------------------------------------------
\* SignalEvaluator.evaluate on bundles of any size
\* ------------------------------------------------------------------------

\* The candles of a bundle whose gate passes for a cross on candle 2.
EvaluateRows ==
    << [close |->  98, volume |-> 1, ema50 |->  99, ema200 |-> 100,
        rsi |-> 40, adx |-> 20],
       [close |->  98, volume |-> 1, ema50 |->  99, ema200 |-> 100,
        rsi |-> 40, adx |-> 20],
       [close |-> 102, volume |-> 4, ema50 |-> 101, ema200 |-> 100,
        rsi |-> 60, adx |-> 30],
       [close |-> 110, volume |-> 4, ema50 |-> 110, ema200 |-> 105,
        rsi |-> 60, adx |-> 30] >>

\* 15m bundles of 0 to 4 candles, with the EMA series or without them
\* (fetch_and_calculate_indicators leaves them empty when it has no EMA
\* data for the interval).
EvaluateBundles ==
    { [ AppendCandles(IndicatorData("15m"), SubSeq(EvaluateRows, 1, n))
          EXCEPT !.ema50  = IF emas THEN @ ELSE << >>,
                 !.ema200 = IF emas THEN @ ELSE << >> ] :
        n \in 0..Len(EvaluateRows), emas \in BOOLEAN }

\* 1h bundles: empty, or the latest candle.
EvaluateHours == { IndicatorData("1h"), TrackerHour }

\* Regimes: idle, or armed on a cross at an index inside or beyond the
\* bundle, alerted or not.
EvaluateRegimes ==
    { RegimeState("BTCUSDT", "15m") }
    \cup
    { [ set_cross(RegimeState("BTCUSDT", "15m"),
                  CrossEvent("BTCUSDT", "15m", k, "bullish", k))
          EXCEPT !.sent_confirmed_alert = sent ] :
        k \in 0..(Len(EvaluateRows) + 1), sent \in BOOLEAN }

\* One call evaluator.evaluate(symbol, timeframe, data_15m, data_1h, regime).
CallEvaluate ==
    \E data_15m \in EvaluateBundles, data_1h \in EvaluateHours,
       regime_state \in EvaluateRegimes :
      /\ ret' = [ call         |-> "evaluate",
                  data_15m     |-> data_15m,
                  data_1h      |-> data_1h,
                  regime_state |-> regime_state,
                  result       |-> evaluate(ScaledConfig, "BTCUSDT", "15m",
                                            data_15m, data_1h, regime_state) ]
      /\ UNCHANGED <<market_data, regimes, stats, outbox, cycle>>

SpecEvaluate == Init /\ [][CallEvaluate]_vars

\* C13: for every pair of bundles (empty series and undersized bundles
\* included) and every regime, evaluate returns without raising, and with
\* an empty series in either bundle it returns no Signal.
FailClosedNeverRaises ==
    ret.call = "evaluate" =>
      /\ ret.result.exc = "none"
      /\ ( \/ ret.data_15m.close = << >>
           \/ ret.data_15m.ema200 = << >>
           \/ ret.data_1h.adx = << >> )
           => ret.result.signal = None

\* ------------------------------------------------------------------------
\* indicators.py: the series MarketDataManager puts into a bundle
\* ------------------------------------------------------------------------
\* The indicator values are floats; here a float is the exact quotient
\* [num, den] in lowest terms with den > 0, NaN is its own value, and a
\* kline DataFrame is the sequence of its rows [high, low, close, volume].

NaN == [nan |-> TRUE]

IsNaN(x) == "nan" \in DOMAIN x

\* x / 0.0 for x # 0 on a pandas Series
Inf == [inf |-> TRUE]

Abs(i) == IF i < 0 THEN -i ELSE i

RECURSIVE GCD(_, _)
GCD(a, b) == IF b = 0 THEN a ELSE GCD(b, a % b)

Q(n, d) == LET g == GCD(Abs(n), d) IN [num |-> n \div g, den |-> d \div g]

\* float(i)
Float(i) == [num |-> i, den |-> 1]

QAdd(a, b) ==
    IF IsNaN(a) \/ IsNaN(b) THEN NaN
    ELSE LET g == GCD(a.den, b.den)
         IN  Q(a.num * (b.den \div g) + b.num * (a.den \div g),
               (a.den \div g) * b.den)

QNeg(a) == IF IsNaN(a) THEN NaN ELSE [num |-> -a.num, den |-> a.den]

QSub(a, b) == QAdd(a, QNeg(b))

QAbs(a) == IF IsNaN(a) THEN NaN ELSE [num |-> Abs(a.num), den |-> a.den]

QMul(a, b) ==
    IF IsNaN(a) \/ IsNaN(b) THEN NaN
    ELSE LET x == Q(a.num, b.den)
             y == Q(b.num, a.den)
         IN  [num |-> x.num * y.num, den |-> x.den * y.den]

\* a / b on pandas Series: 0/0 is NaN, x/0 is inf, no ZeroDivisionError
QDiv(a, b) ==
    IF IsNaN(a) \/ IsNaN(b) THEN NaN
    ELSE IF b.num = 0 THEN (IF a.num = 0 THEN NaN ELSE Inf)
    ELSE IF b.num > 0 THEN QMul(a, [num |-> b.den, den |-> b.num])
    ELSE QMul(a, [num |-> -b.den, den |-> -b.num])

\* a > b; a comparison with NaN is false
QGt(a, b) ==
    /\ ~IsNaN(a)
    /\ ~IsNaN(b)
    /\ a.num * b.den > b.num * a.den

\* Series.fillna(0)
fillna(series) ==
    [i \in 1..Len(series) |-> IF IsNaN(series[i]) THEN Float(0) ELSE series[i]]

\* Series.diff()
diff(series) ==
    [i \in 1..Len(series) |->
        IF i = 1 THEN NaN ELSE QSub(series[i], series[i - 1])]

\* Series.shift(1)
shift(series) ==
    [i \in 1..Len(series) |-> IF i = 1 THEN NaN ELSE series[i - 1]]

RECURSIVE dropna(_)
dropna(series) ==
    IF series = << >> THEN << >>
    ELSE IF IsNaN(Head(series)) THEN dropna(Tail(series))
    ELSE <<Head(series)>> \o dropna(Tail(series))

RECURSIVE QSum(_)
QSum(series) ==
    IF series = << >> THEN Float(0) ELSE QAdd(Head(series), QSum(Tail(series)))

\* Series.mean(): NaN entries are skipped; NaN when nothing is left
mean(series) ==
    LET defined == dropna(series)
    IN  IF defined = << >> THEN NaN
        ELSE QDiv(QSum(defined), Float(Len(defined)))

\* max of a row of concat(..., axis=1).max(axis=1): NaN entries are skipped
RECURSIVE row_max(_)
row_max(row) ==
    LET defined == dropna(row)
    IN  IF defined = << >> THEN NaN
        ELSE IF Len(defined) = 1 THEN Head(defined)
        ELSE LET m == row_max(Tail(defined))
             IN  IF QGt(Head(defined), m) THEN Head(defined) ELSE m

\* The loop of rma_tv from index i on.
RECURSIVE rma_tv_loop(_, _, _, _)
rma_tv_loop(series, period, i, result) ==
    IF i >= Len(series) THEN result
    ELSE rma_tv_loop(series, period, i + 1,
           [result EXCEPT ![i + 1] =
               QDiv(QAdd(QMul(At(result, i - 1), Float(period - 1)),
                         At(series, i)),
                    Float(period))])

\* rma_tv(series, period) for period >= 1.  result.iloc[period-1] = ...
\* raises IndexError when the series has fewer than `period` entries.
rma_tv(series, period) ==
    IF period - 1 >= Len(series)
    THEN [exc |-> "IndexError", value |-> << >>]
    ELSE [exc   |-> "none",
          value |-> rma_tv_loop(series, period, period,
                      [i \in 1..Len(series) |->
                          IF i = period THEN mean(Slice(series, 0, period))
                          ELSE NaN])]

Column(df, name) == [i \in 1..Len(df) |-> Float(df[i][name])]

\* The body of the loop of calculate_adx_full_series for one interval.
adx_series(df, di_period, adx_period) ==
    LET high     == Column(df, "high")
        low      == Column(df, "low")
        close    == Column(df, "close")
        up       == diff(high)
        down     == [i \in 1..Len(df) |-> QNeg(diff(low)[i])]
        plus_dm  == [i \in 1..Len(df) |->
                       IF QGt(up[i], down[i]) /\ QGt(up[i], Float(0))
                       THEN up[i] ELSE Float(0)]
        minus_dm == [i \in 1..Len(df) |->
                       IF QGt(down[i], up[i]) /\ QGt(down[i], Float(0))
                       THEN down[i] ELSE Float(0)]
        prev     == shift(close)
        tr       == [i \in 1..Len(df) |->
                       row_max(<< QSub(high[i], low[i]),
                                  QAbs(QSub(high[i], prev[i])),
                                  QAbs(QSub(low[i], prev[i])) >>)]
        tr_rma    == rma_tv(tr, di_period)
        plus_rma  == rma_tv(plus_dm, di_period)
        minus_rma == rma_tv(minus_dm, di_period)
    IN  IF tr_rma.exc # "none" THEN tr_rma
        ELSE
        LET plus_di  == [i \in 1..Len(df) |->
                           QMul(Float(100),
                                QDiv(plus_rma.value[i], tr_rma.value[i]))]
            minus_di == [i \in 1..Len(df) |->
                           QMul(Float(100),
                                QDiv(minus_rma.value[i], tr_rma.value[i]))]
            dx       == fillna([i \in 1..Len(df) |->
                           QDiv(QAbs(QSub(plus_di[i], minus_di[i])),
                                QAdd(plus_di[i], minus_di[i]))])
            adx      == rma_tv(dx, adx_period)
        IN  IF adx.exc # "none" THEN adx
            ELSE [exc   |-> "none",
                  value |-> fillna([i \in 1..Len(df) |->
                                      QMul(adx.value[i], Float(100))])]

\* calculate_adx_full_series(data_dict, di_period, adx_period): the first
\* interval whose series raises ends the call.
calculate_adx_full_series(data_dict, di_period, adx_period) ==
    IF \E interval \in DOMAIN data_dict :
          adx_series(data_dict[interval], di_period, adx_period).exc # "none"
    THEN [exc |-> "IndexError", value |-> << >>]
    ELSE [exc   |-> "none",
          value |-> [interval \in DOMAIN data_dict |->
                       adx_series(data_dict[interval],
                                  di_period, adx_period).value]]

\* close.ewm(span=period, adjust=False).mean()
RECURSIVE ewm_mean(_, _)
ewm_mean(close, period) ==
    IF Len(close) <= 1 THEN close
    ELSE LET before == ewm_mean(SubSeq(close, 1, Len(close) - 1), period)
         IN  Append(before,
                    QAdd(QMul(Q(period - 1, period + 1), Last(before)),
                         QMul(Q(2, period + 1), Last(close))))

\* get_ema_all_timeframes(data_dict, ema_periods): per interval, the series
\* "ema_<period>" for each period.
get_ema_all_timeframes(data_dict, ema_periods) ==
    [tf \in DOMAIN data_dict |->
        [period \in ema_periods |->
            ewm_mean(Column(data_dict[tf], "close"), period)]]

\* The loop of get_rsi_full_series from index i on.
RECURSIVE rsi_loop(_, _, _, _, _, _, _)
rsi_loop(gain, loss, period, i, avg_gain, avg_loss, rsi_values) ==
    IF i >= Len(gain) THEN rsi_values
    ELSE LET g   == QDiv(QAdd(QMul(avg_gain, Float(period - 1)), At(gain, i)),
                         Float(period))
             l   == QDiv(QAdd(QMul(avg_loss, Float(period - 1)), At(loss, i)),
                         Float(period))
             \* rs is inf when avg_loss == 0, and 100 - 100 / (1 + inf) = 100
             rsi == IF ~IsNaN(l) /\ l.num = 0 THEN Float(100)
                    ELSE QSub(Float(100),
                              QDiv(Float(100), QAdd(Float(1), QDiv(g, l))))
         IN  rsi_loop(gain, loss, period, i + 1, g, l, Append(rsi_values, rsi))

\* The body of the loop of get_rsi_full_series for one interval.
rsi_series(df, period) ==
    IF df = << >> THEN << >>
    ELSE LET delta == diff(Column(df, "close"))
             gain  == [i \in 1..Len(df) |->
                         IF QGt(Float(0), delta[i]) THEN Float(0) ELSE delta[i]]
             loss  == [i \in 1..Len(df) |->
                         QNeg(IF QGt(delta[i], Float(0)) THEN Float(0)
                              ELSE delta[i])]
         IN  rsi_loop(gain, loss, period, period,
                      mean(Slice(gain, 0, period)),
                      mean(Slice(loss, 0, period)),
                      [i \in 1..period |-> NaN])

get_rsi_full_series(candle_data_dict, period) ==
    [interval \in DOMAIN candle_data_dict |->
        rsi_series(candle_data_dict[interval], period)]

get_full_volume_series(candle_data_dict) ==
    [interval \in DOMAIN candle_data_dict |->
        IF candle_data_dict[interval] = << >> THEN << >>
        ELSE Column(candle_data_dict[interval], "volume")]

\* The periods of MarketDataManager.__init__ (the defaults).
DefaultPeriods ==
    [ema_periods |-> {9, 25, 50, 99, 200}, rsi_period |-> 14,
     adx_di_period |-> 14, adx_period |-> 14]

\* The ema_<period> series of one interval, [] when it was not computed.
ema_get(ema_data, interval, period) ==
    IF period \in DOMAIN ema_data[interval]
    THEN ema_data[interval][period] ELSE << >>

\* MarketDataManager.fetch_and_calculate_indicators, given what
\* client.fetch_klines_multiple returned.  open_time is the position of
\* the candle in the klines.
fetch_and_calculate_indicators_from(self, klines_dict, intervals) ==
    IF \A interval \in DOMAIN klines_dict : klines_dict[interval] = << >>
    THEN [exc |-> "none", result |-> << >>]
    ELSE
    LET ema_data    == get_ema_all_timeframes(klines_dict, self.ema_periods)
        rsi_data    == get_rsi_full_series(klines_dict, self.rsi_period)
        adx_data    == calculate_adx_full_series(klines_dict,
                          self.adx_di_period, self.adx_period)
        volume_data == get_full_volume_series(klines_dict)
        built       == { interval \in intervals :
                           /\ interval \in DOMAIN klines_dict
                           /\ klines_dict[interval] # << >> }
    IN  IF adx_data.exc # "none"
        THEN [exc |-> adx_data.exc, result |-> << >>]
        ELSE [exc    |-> "none",
              result |-> [interval \in built |->
                 [ IndicatorData(interval) EXCEPT
                     !.open_time = [i \in 1..Len(klines_dict[interval]) |->
                                      i - 1],
                     !.close  = Column(klines_dict[interval], "close"),
                     !.volume = volume_data[interval],
                     !.ema50  = ema_get(ema_data, interval, 50),
                     !.ema200 = ema_get(ema_data, interval, 200),
                     !.rsi    = rsi_data[interval],
                     !.adx    = adx_data.value[interval] ]]]

\* Klines of the fetch specification: at most MaxKlines rows.
MaxKlines == 3

KlineRows ==
    { [high |-> 3, low |-> 1, close |-> 2, volume |-> 1],
      [high |-> 4, low |-> 2, close |-> 4, volume |-> 2],
      [high |-> 2, low |-> 1, close |-> 1, volume |-> 1],
      [high |-> 2, low |-> 2, close |-> 2, volume |-> 3] }

\* Managers with short periods, so that klines shorter than, as long as
\* and longer than each period occur.
FetchManagers ==
    { [DefaultPeriods EXCEPT !.ema_periods = {50, 200}, !.rsi_period = r,
                             !.adx_di_period = 2, !.adx_period = a] :
        r \in {2, 3}, a \in {1, 2} }

\* One call manager.fetch_and_calculate_indicators(symbol, ['15m']) on a
\* new manager: the call reads nothing an earlier call left behind.
CallFetch ==
    \E n \in 1..MaxKlines, self \in FetchManagers :
      \E klines \in [1..n -> KlineRows] :
        /\ ret.call = "none"
        /\ ret' = [ call   |-> "fetch_and_calculate_indicators",
                    self   |-> self,
                    klines |-> klines,
                    result |-> fetch_and_calculate_indicators_from(
                                  self, [interval \in {"15m"} |-> klines],
                                  {"15m"}) ]
        /\ UNCHANGED <<market_data, regimes, stats, outbox, cycle>>

SpecFetch == Init /\ [][CallFetch]_vars

\* C14: for every number n >= 1 of candles, the bundle built by
\* fetch_and_calculate_indicators has close, volume, ema50, ema200, rsi and
\* adx of length exactly n, the first rsi_period RSI entries undefined and
\* the ADX entries before the warm-up zero.
IndexAlignment ==
    ret.call = "fetch_and_calculate_indicators" =>
      LET n == Len(ret.klines)
      IN  /\ ret.result.exc = "none"
          /\ "15m" \in DOMAIN ret.result.result
          /\ LET data == ret.result.result["15m"]
             IN  /\ \A series \in {data.close, data.volume, data.ema50,
                                   data.ema200, data.rsi, data.adx} :
                       Len(series) = n
                 /\ \A i \in 0..(n - 1) :
                       /\ i < ret.self.rsi_period => IsNaN(At(data.rsi, i))
                       /\ i < ret.self.adx_period - 1 =>
                            At(data.adx, i) = Float(0)

\* ------------------------------------------------------------------------
\* FeatureCalculator._calculate_volume_score on its own
\* ------------------------------------------------------------------------

MaxBaselinePeriod == 4

MaxVolumes == 5

\* Volume series of up to MaxVolumes candles, quiet (1) or busy (5).
VolumeSeries == UNION { [1..n -> {1, 5}] : n \in 0..MaxVolumes }

\* One call FeatureCalculator(config)._calculate_volume_score(data,
\* cross_event): the call reads nothing an earlier call left behind.
CallVolumeScore ==
    \E baseline_period \in 1..MaxBaselinePeriod, cross_window \in {0, 1},
       volume \in VolumeSeries, cross_index \in 0..(MaxVolumes - 1) :
      LET config      == [ SIGNAL_CONFIG EXCEPT
                             !.volume_cross_window    = cross_window,
                             !.volume_baseline_period = baseline_period ]
          data        == [ IndicatorData("15m") EXCEPT !.volume = volume ]
          cross_event == CrossEvent("BTCUSDT", "15m", cross_index,
                                    "bullish", cross_index)
      IN  /\ ret.call = "none"
          /\ ret' = [ call        |-> "_calculate_volume_score",
                      config      |-> config,
                      data        |-> data,
                      cross_event |-> cross_event,
                      result      |-> _calculate_volume_score(config, data,
                                                              cross_event) ]
          /\ UNCHANGED <<market_data, regimes, stats, outbox, cycle>>

SpecVolume == Init /\ [][CallVolumeScore]_vars

\* The number of candles between the start of the series and the start of
\* the cross window, at most baseline_period of them: the baseline window.
BaselineCandles ==
    Min(ret.config.volume_baseline_period,
        Min(Len(ret.data.volume),
            Max(0, ret.cross_event.cross_index
                     - ret.config.volume_cross_window)))

\* C15: for every volume_baseline_period, even or odd, and every cross
\* index, a baseline window of fewer than half of baseline_period candles
\* makes _calculate_volume_score return score 0 and ratio 0.
InsufficientBaseline ==
    ( /\ ret.call = "_calculate_volume_score"
      /\ 2 * BaselineCandles < ret.config.volume_baseline_period )
    => /\ ret.result.exc = "none"
       /\ ret.result.score = 0
       /\ ret.result.ratio = <<0, 1>>

\* ------------------------------------------------------------------------
\* FeatureCalculator.calculate_all_features called again and again
\* ------------------------------------------------------------------------

\* The regime of the pair BTCUSDT 15m, idle when the table has none.
FeaturesRegime ==
    IF <<"BTCUSDT", "15m">> \in DOMAIN regimes
    THEN regimes[<<"BTCUSDT", "15m">>]
    ELSE RegimeState("BTCUSDT", "15m")

\* One call feature_calculator.calculate_all_features(data_15m, data_1h,
\* cross_event) on the bundles the bot holds and the active cross of the
\* regime.  The call assigns to the new SignalFeatures object only.
\* `repeated` says that the call before it was one too.
CallCalculateAllFeatures ==
    /\ "BTCUSDT" \in DOMAIN market_data
    /\ FeaturesRegime.active_cross # None
    /\ ret' = [ call        |-> "calculate_all_features",
                repeated    |-> ret.call = "calculate_all_features",
                data_15m    |-> market_data["BTCUSDT"]["15m"],
                data_1h     |-> market_data["BTCUSDT"]["1h"],
                cross_event |-> FeaturesRegime.active_cross,
                features    |-> calculate_all_features(GateConfig,
                                   market_data["BTCUSDT"]["15m"],
                                   market_data["BTCUSDT"]["1h"],
                                   FeaturesRegime.active_cross) ]
    /\ UNCHANGED <<market_data, regimes, stats, outbox, cycle>>

FeaturesNext == GateArm \/ GateUpdate \/ CallCalculateAllFeatures

SpecFeatures == Init /\ [][FeaturesNext]_vars

InRange(s, i) == -Len(s) <= i /\ i < Len(s)

\* s[i] for an index in range
Item(s, i) == IF i < 0 THEN s[Len(s) + i + 1] ELSE s[i + 1]

\* Variant of insufficient_ema_data: lookback entries are taken as enough.
insufficient_ema_data_off_by_one(ema_fast, ema_slow, lookback) ==
    Len(ema_fast) < lookback \/ Len(ema_slow) < lookback

\* The validation of detect_cross.
insufficient_ema_data(ema_fast, ema_slow, lookback) ==
    Len(ema_fast) < lookback + 1 \/ Len(ema_slow) < lookback + 1

\* Variant of is_bullish_cross: the fast EMA must come from strictly below.
is_bullish_cross_strict(fast_prev, slow_prev, fast_curr, slow_curr) ==
    fast_prev < slow_prev /\ fast_curr > slow_curr

\* The two conditions of a cross at an index.
is_bullish_cross(fast_prev, slow_prev, fast_curr, slow_curr) ==
    fast_prev <= slow_prev /\ fast_curr > slow_curr

is_bearish_cross(fast_prev, slow_prev, fast_curr, slow_curr) ==
    fast_prev >= slow_prev /\ fast_curr < slow_curr

\* The loop of detect_cross from iteration i on.  reads: the indices read
\* so far.
RECURSIVE detect_cross_loop(_, _, _, _, _, _)
detect_cross_loop(symbol, timeframe, data, lookback, i, reads) ==
    IF i >= lookback
    THEN [result |-> None, exc |-> "none", reads |-> reads]
    ELSE
      LET ema_fast    == data.ema50
          ema_slow    == data.ema200
          current_idx == Len(ema_fast) - 1
          check_idx   == current_idx - i
          prev_idx    == check_idx - 1
          now_read    == reads \cup {prev_idx, check_idx}
      IN  IF \/ ~InRange(ema_fast, prev_idx) \/ ~InRange(ema_fast, check_idx)
             \/ ~InRange(ema_slow, prev_idx) \/ ~InRange(ema_slow, check_idx)
          THEN [result |-> None, exc |-> "IndexError", reads |-> now_read]
          ELSE
            LET fast_prev == Item(ema_fast, prev_idx)
                fast_curr == Item(ema_fast, check_idx)
                slow_prev == Item(ema_slow, prev_idx)
                slow_curr == Item(ema_slow, check_idx)
            IN  IF is_bullish_cross(fast_prev, slow_prev, fast_curr, slow_curr)
                THEN [result |-> CrossEvent(symbol, timeframe, check_idx,
                                    "bullish", At(data.open_time, check_idx)),
                      exc |-> "none", reads |-> now_read]
                ELSE IF is_bearish_cross(fast_prev, slow_prev,
                                         fast_curr, slow_curr)
                THEN [result |-> CrossEvent(symbol, timeframe, check_idx,
                                    "bearish", At(data.open_time, check_idx)),
                      exc |-> "none", reads |-> now_read]
                ELSE detect_cross_loop(symbol, timeframe, data, lookback,
                                       i + 1, now_read)

\* detect_cross with what it returns (result), what it raises (exc) and
\* the indices it reads from the EMA lists (reads).
detect_cross_run(symbol, timeframe, data, lookback) ==
    IF insufficient_ema_data(data.ema50, data.ema200, lookback)
    THEN [result |-> None, exc |-> "none", reads |-> {}]
    ELSE detect_cross_loop(symbol, timeframe, data, lookback, 0, {})

\* Variant of find_recent_crosses_start: the window starts one candle late.
find_recent_crosses_start_late(data_len, max_lookback) ==
    Max(1, data_len - max_lookback + 1)

\* start_idx of find_recent_crosses
find_recent_crosses_start(data_len, max_lookback) ==
    Max(1, data_len - max_lookback)

\* The loop of find_recent_crosses from index i on.
RECURSIVE find_recent_crosses_loop(_, _, _, _, _)
find_recent_crosses_loop(symbol, timeframe, data, i, crosses) ==
    IF i >= Len(data.ema50)
    THEN [result |-> crosses, exc |-> "none"]
    ELSE
      LET ema_fast == data.ema50
          ema_slow == data.ema200
      IN  IF ~InRange(ema_slow, i - 1) \/ ~InRange(ema_slow, i)
          THEN [result |-> << >>, exc |-> "IndexError"]
          ELSE
            LET fast_prev == Item(ema_fast, i - 1)
                fast_curr == Item(ema_fast, i)
                slow_prev == Item(ema_slow, i - 1)
                slow_curr == Item(ema_slow, i)
            IN  find_recent_crosses_loop(symbol, timeframe, data, i + 1,
                  IF is_bullish_cross(fast_prev, slow_prev, fast_curr, slow_curr)
                  THEN Append(crosses,
                         CrossEvent(symbol, timeframe, i, "bullish",
                                    At(data.open_time, i)))
                  ELSE IF is_bearish_cross(fast_prev, slow_prev,
                                           fast_curr, slow_curr)
                  THEN Append(crosses,
                         CrossEvent(symbol, timeframe, i, "bearish",
                                    At(data.open_time, i)))
                  ELSE crosses)

find_recent_crosses(symbol, timeframe, data, max_lookback) ==
    IF Len(data.ema50) < 2 \/ Len(data.ema200) < 2
    THEN [result |-> << >>, exc |-> "none"]
    ELSE find_recent_crosses_loop(symbol, timeframe, data,
           find_recent_crosses_start(Len(data.ema50), max_lookback), << >>)

MaxEma == 4

MaxLookback == 3

\* Bundles for the cross detector: an EMA50 series of up to MaxEma entries
\* under, on or over an EMA200 of 2, the EMA200 series of any length up to
\* MaxEma.
CrossBundles ==
    { [ IndicatorData("15m") EXCEPT
          !.open_time = [i \in 1..Len(ema_fast) |-> i - 1],
          !.ema50     = ema_fast,
          !.ema200    = [i \in 1..slow_len |-> 2] ] :
        ema_fast \in UNION { [1..n -> {1, 2, 3}] : n \in 0..MaxEma },
        slow_len \in 0..MaxEma }

\* One call detector.detect_cross(symbol, timeframe, data, lookback): the
\* call reads nothing an earlier call left behind.
CallDetectCross ==
    \E data \in CrossBundles, lookback \in 0..MaxLookback :
      /\ ret.call = "none"
      /\ ret' = [ call     |-> "detect_cross",
                  data     |-> data,
                  lookback |-> lookback ]
                @@ detect_cross_run("BTCUSDT", "15m", data, lookback)
      /\ UNCHANGED <<market_data, regimes, stats, outbox, cycle>>

\* One call detector.find_recent_crosses(symbol, timeframe, data,
\* max_lookback).
CallFindRecentCrosses ==
    \E data \in CrossBundles, max_lookback \in 0..MaxLookback :
      /\ ret.call = "none"
      /\ ret' = [ call     |-> "find_recent_crosses",
                  data     |-> data,
                  lookback |-> max_lookback ]
                @@ find_recent_crosses("BTCUSDT", "15m", data, max_lookback)
      /\ UNCHANGED <<market_data, regimes, stats, outbox, cycle>>

CrossNext == CallDetectCross \/ CallFindRecentCrosses

SpecCross == Init /\ [][CrossNext]_vars

\* The call was given EMA series of equal length.
EqualLength == Len(ret.data.ema50) = Len(ret.data.ema200)

\* In the bundle of the call, index i (1 <= i < n) is a bullish cross: fast
\* at or under slow on i-1, fast over slow on i; or a bearish cross,
\* mirrored.
BullishAt(i) ==
    /\ At(ret.data.ema50, i - 1) <= At(ret.data.ema200, i - 1)
    /\ At(ret.data.ema50, i) > At(ret.data.ema200, i)

BearishAt(i) ==
    /\ At(ret.data.ema50, i - 1) >= At(ret.data.ema200, i - 1)
    /\ At(ret.data.ema50, i) < At(ret.data.ema200, i)

\* The indices of [lo, n-1] that are a cross.
CrossIndices(lo) ==
    { i \in lo..(Len(ret.data.ema50) - 1) : BullishAt(i) \/ BearishAt(i) }

SetMax(S) == CHOOSE m \in S : \A x \in S : x <= m

\* C17: with both EMA series of equal length n >= lookback+1, detect_cross
\* returns the cross at the greatest index of [n-lookback, n-1] that is a
\* cross, with that index and its type, and none iff no index of the range
\* is a cross.
MostRecentCross ==
    ( /\ ret.call = "detect_cross"
      /\ EqualLength
      /\ Len(ret.data.ema50) >= ret.lookback + 1 )
    =>
      LET found == CrossIndices(Len(ret.data.ema50) - ret.lookback)
      IN  /\ ret.exc = "none"
          /\ (ret.result = None) = (found = {})
          /\ ret.result # None =>
               /\ ret.result.cross_index = SetMax(found)
               /\ (ret.result.cross_type = "bullish")
                    = BullishAt(ret.result.cross_index)
               /\ (ret.result.cross_type = "bearish")
                    = BearishAt(ret.result.cross_index)

\* C17's case: fast under slow before index 2 (on it at index 1) and over
\* it from index 2 on, the cross inside the lookback: a bullish event with
\* cross_index 2.
MostRecentCrossWitness ==
    /\ ret.call = "detect_cross"
    /\ ret.data.ema50 = <<1, 2, 3, 3>>
    /\ ret.data.ema200 = <<2, 2, 2, 2>>
    /\ ret.lookback = 3
    /\ ret.result # None
    /\ ret.result.cross_index = 2
    /\ ret.result.cross_type = "bullish"

\* C18: detect_cross returns none without raising, and without reading the
\* lists, when either EMA series has fewer than lookback+1 entries; when
\* both have n >= lookback+1 entries, every index it reads lies in
\* [0, n-1]: no negative index is read.
NoWrapAround ==
    ret.call = "detect_cross" =>
      /\ ( \/ Len(ret.data.ema50) < ret.lookback + 1
           \/ Len(ret.data.ema200) < ret.lookback + 1 )
         => /\ ret.result = None
            /\ ret.exc = "none"
            /\ ret.reads = {}
      /\ ( /\ EqualLength
           /\ Len(ret.data.ema50) >= ret.lookback + 1 )
         => /\ ret.exc = "none"
            /\ \A i \in ret.reads : 0 <= i /\ i <= Len(ret.data.ema50) - 1

\* C18's case: exactly lookback+1 entries and no cross, so that the loop
\* reads down to index 0.
NoWrapAroundWitness ==
    /\ ret.call = "detect_cross"
    /\ EqualLength
    /\ Len(ret.data.ema50) = ret.lookback + 1
    /\ ret.lookback = MaxLookback
    /\ ret.result = None
    /\ ret.reads = 0..(Len(ret.data.ema50) - 1)

\* The crosses of the list the call returned.
Returned == { ret.result[k] : k \in 1..Len(ret.result) }

\* C19: find_recent_crosses returns every cross index of
\* [max(1, n-maxLookback), n-1] exactly once, with its type, in strictly
\* increasing order of cross_index; and for n >= L+1, detect_cross with
\* lookback L returns the last element of the list (same index and type),
\* or none when the list is empty.
AllRecentCrosses ==
    ( /\ ret.call = "find_recent_crosses"
      /\ EqualLength )
    =>
      LET n      == Len(ret.data.ema50)
          found  == CrossIndices(Max(1, n - ret.lookback))
          latest == detect_cross_run("BTCUSDT", "15m", ret.data, ret.lookback)
      IN  /\ ret.exc = "none"
          /\ { c.cross_index : c \in Returned } = found
          /\ Len(ret.result) = Cardinality(found)
          /\ \A k \in 1..Len(ret.result) :
               /\ (ret.result[k].cross_type = "bullish")
                    = BullishAt(ret.result[k].cross_index)
               /\ (ret.result[k].cross_type = "bearish")
                    = BearishAt(ret.result[k].cross_index)
               /\ k > 1 => ret.result[k - 1].cross_index
                             < ret.result[k].cross_index
          /\ n >= ret.lookback + 1 =>
               /\ latest.exc = "none"
               /\ latest.result
                    = IF ret.result = << >> THEN None ELSE Last(ret.result)

\* C19's case: a bullish cross on index 1 and a bearish cross on index 3
\* inside the window, and detect_cross returns the second.
AllRecentCrossesWitness ==
    /\ ret.call = "find_recent_crosses"
    /\ ret.data.ema50 = <<1, 3, 3, 1>>
    /\ ret.data.ema200 = <<2, 2, 2, 2>>
    /\ ret.lookback = 3
    /\ Len(ret.result) = 2
    /\ ret.result[1].cross_index = 1
    /\ ret.result[1].cross_type = "bullish"
    /\ ret.result[2].cross_index = 3
    /\ ret.result[2].cross_type = "bearish"
    /\ detect_cross_run("BTCUSDT", "15m", ret.data, 3).result = ret.result[2]

\* ------------------------------------------------------------------------
\* FeatureCalculator._check_slope_filter on its own
\* ------------------------------------------------------------------------

\* The indices of data.ema200 that _check_slope_filter reads.
_check_slope_filter_reads(data, cross_event) ==
    LET cross_index   == cross_event.cross_index
        current_index == Len(data.ema200) - 1
    IN  IF cross_index >= Len(data.ema200) \/ current_index < 0
        THEN {}
        ELSE IF data.ema200 = << >> \/ Len(data.ema200) < cross_index + 1
        THEN {}
        ELSE {cross_index, current_index}

\* EMA200 series of up to MaxEma entries (0 included) and a cross event
\* whose index is inside the series or past its end.
CallSlopeFilter ==
    \E ema200 \in UNION { [1..n -> {0, 1, 2}] : n \in 0..MaxEma },
       cross_index \in 0..(MaxEma + 1) :
      LET data        == [ IndicatorData("15m") EXCEPT !.ema200 = ema200 ]
          cross_event == CrossEvent("BTCUSDT", "15m", cross_index,
                                    "bullish", cross_index)
      IN  /\ ret.call = "none"
          /\ ret' = [ call        |-> "_check_slope_filter",
                      data        |-> data,
                      cross_event |-> cross_event,
                      result      |-> _check_slope_filter(data, cross_event),
                      reads       |-> _check_slope_filter_reads(data,
                                                                cross_event) ]
          /\ UNCHANGED <<market_data, regimes, stats, outbox, cycle>>

SpecSlope == Init /\ [][CallSlopeFilter]_vars

\* C20: slope_rising is true iff the cross index is inside the EMA200
\* series, EMA200 at the cross index is not 0 and EMA200 at the latest
\* index is strictly greater than EMA200 at the cross index; the result is
\* (false, 0) when the cross index is past the end of the series or EMA200
\* at the cross is 0; no index outside the series is read.
SlopeCheck ==
    ret.call = "_check_slope_filter" =>
      LET ema200 == ret.data.ema200
          k      == ret.cross_event.cross_index
          inside == 0 <= k /\ k < Len(ema200)
      IN  /\ ret.result.ok = ( /\ inside
                               /\ At(ema200, k) # 0
                               /\ Last(ema200) > At(ema200, k) )
          /\ ( \/ k >= Len(ema200)
               \/ (inside /\ At(ema200, k) = 0) )
             => ret.result = [ok |-> FALSE, change |-> <<0, 1>>]
          /\ \A i \in ret.reads : 0 <= i /\ i < Len(ema200)

\* C20's case: the cross two candles before the latest, EMA200 risen from 1
\* to 2 since.
SlopeCheckWitness ==
    /\ ret.call = "_check_slope_filter"
    /\ ret.data.ema200 = <<1, 1, 2, 2>>
    /\ ret.cross_event.cross_index = 1
    /\ ret.result.ok
    /\ ret.result.change = <<1, 1>>
    /\ ret.reads = {1, 3}

\* ------------------------------------------------------------------------
\* The volume check on a cross index outside the bundle
\* ------------------------------------------------------------------------

\* C21: for every cross event whose cross_index is outside the bundle
\* (cross_index >= len(volume)), _calculate_volume_score returns score 0
\* and ratio 0 without raising.
MalformedCrossIndex ==
    ( /\ ret.call = "_calculate_volume_score"
      /\ ret.cross_event.cross_index >= Len(ret.data.volume) )
    => /\ ret.result.exc = "none"
       /\ ret.result.score = 0
       /\ ret.result.ratio = <<0, 1>>

\* The candles of the call's bundle at the indices cross_index - cross_window
\* .. cross_index + cross_window, and the up to baseline_period candles
\* before them.
CrossWindowVolumes ==
    Slice(ret.data.volume,
          Max(0, ret.cross_event.cross_index - ret.config.volume_cross_window),
          ret.cross_event.cross_index + ret.config.volume_cross_window + 1)

BaselineVolumes ==
    LET first == Max(0, ret.cross_event.cross_index
                          - ret.config.volume_cross_window)
    IN  Slice(ret.data.volume,
              Max(0, first - ret.config.volume_baseline_period), first)

\* The call's bundle as it was when only its first m candles had arrived.
VolumesUpTo(m) == [ret.data EXCEPT !.volume = SubSeq(@, 1, m)]

\* C22: for a cross inside the bundle, the score is 1 iff the baseline has
\* at least half of baseline_period candles and a non-zero mean and
\* mean(cross window) / mean(baseline) >= volume_min_ratio, otherwise 0;
\* and the score of the cross is the same however many candles have
\* arrived after the cross candle.
VolumePass ==
    ( /\ ret.call = "_calculate_volume_score"
      /\ ret.cross_event.cross_index < Len(ret.data.volume) )
    =>
      /\ ret.result.exc = "none"
      /\ (ret.result.score = 1)
           = ( /\ 2 * Len(BaselineVolumes)
                    >= ret.config.volume_baseline_period
               /\ SumSeq(BaselineVolumes) # 0
               /\ SumSeq(CrossWindowVolumes) * Len(BaselineVolumes)
                    >= ret.config.volume_min_ratio
                         * SumSeq(BaselineVolumes) * Len(CrossWindowVolumes) )
      /\ ret.result.score \in {0, 1}
      /\ \A m \in (ret.cross_event.cross_index + 1)..Len(ret.data.volume) :
           _calculate_volume_score(ret.config, VolumesUpTo(m),
                                   ret.cross_event).score
             = ret.result.score

\* ------------------------------------------------------------------------
\* FeatureCalculator._check_trend_strength and _check_momentum_bias on
\* their own
\* ------------------------------------------------------------------------

\* Indicator series of up to MaxReadings entries, each below, on or above
\* the thresholds of SIGNAL_CONFIG (22 and 25 for ADX, 50 for RSI).
MaxReadings == 2

AdxSeries == UNION { [1..n -> {22, 25, 26}] : n \in 0..MaxReadings }

RsiSeries == UNION { [1..n -> {49, 50, 51}] : n \in 0..MaxReadings }

CallTrendStrength ==
    \E adx_15m \in AdxSeries, adx_1h \in AdxSeries :
      LET data_15m == [ IndicatorData("15m") EXCEPT !.adx = adx_15m ]
          data_1h  == [ IndicatorData("1h") EXCEPT !.adx = adx_1h ]
      IN  /\ ret.call = "none"
          /\ ret' = [ call     |-> "_check_trend_strength",
                      config   |-> SIGNAL_CONFIG,
                      data_15m |-> data_15m,
                      data_1h  |-> data_1h,
                      result   |-> _check_trend_strength(SIGNAL_CONFIG,
                                                         data_15m, data_1h) ]
          /\ UNCHANGED <<market_data, regimes, stats, outbox, cycle>>

CallMomentumBias ==
    \E rsi_15m \in RsiSeries, rsi_1h \in RsiSeries :
      LET data_15m == [ IndicatorData("15m") EXCEPT !.rsi = rsi_15m ]
          data_1h  == [ IndicatorData("1h") EXCEPT !.rsi = rsi_1h ]
      IN  /\ ret.call = "none"
          /\ ret' = [ call     |-> "_check_momentum_bias",
                      config   |-> SIGNAL_CONFIG,
                      data_15m |-> data_15m,
                      data_1h  |-> data_1h,
                      result   |-> _check_momentum_bias(SIGNAL_CONFIG,
                                                        data_15m, data_1h) ]
          /\ UNCHANGED <<market_data, regimes, stats, outbox, cycle>>

TrendNext == CallTrendStrength \/ CallMomentumBias

SpecTrend == Init /\ [][TrendNext]_vars

\* The latest value of a series as the checks report it: 0 for a series
\* with no data.
Reading(series) == IF series = << >> THEN 0 ELSE Last(series)

\* C23: trend_ok is true iff both bundles have ADX data and the latest 15m
\* ADX is strictly above adx_threshold_15m and the latest 1h ADX strictly
\* above adx_threshold_1h; momentum_ok likewise with RSI; a reading that is
\* missing is reported as 0 and a reading that is present with its latest
\* value.
TrendAndMomentum ==
    /\ ret.call = "_check_trend_strength" =>
          /\ ret.result.ok
               = ( /\ ret.data_15m.adx # << >>
                   /\ ret.data_1h.adx # << >>
                   /\ Last(ret.data_15m.adx) > ret.config.adx_threshold_15m
                   /\ Last(ret.data_1h.adx) > ret.config.adx_threshold_1h )
          /\ ret.result.v15 = Reading(ret.data_15m.adx)
          /\ ret.result.v1h = Reading(ret.data_1h.adx)
    /\ ret.call = "_check_momentum_bias" =>
          /\ ret.result.ok
               = ( /\ ret.data_15m.rsi # << >>
                   /\ ret.data_1h.rsi # << >>
                   /\ Last(ret.data_15m.rsi) > ret.config.rsi_threshold_15m
                   /\ Last(ret.data_1h.rsi) > ret.config.rsi_threshold_1h )
          /\ ret.result.v15 = Reading(ret.data_15m.rsi)
          /\ ret.result.v1h = Reading(ret.data_1h.rsi)

\* ------------------------------------------------------------------------
\* SignalEvaluator.evaluate on bundles whose latest values are undefined
\* ------------------------------------------------------------------------

\* The bundle with nan as the latest value of the series named in `series`.
WithUndefined(data, series) ==
    [ data EXCEPT
        !.close  = IF "close"  \in series THEN [@ EXCEPT ![Len(@)] = nan] ELSE @,
        !.ema50  = IF "ema50"  \in series THEN [@ EXCEPT ![Len(@)] = nan] ELSE @,
        !.ema200 = IF "ema200" \in series THEN [@ EXCEPT ![Len(@)] = nan] ELSE @,
        !.rsi    = IF "rsi"    \in series THEN [@ EXCEPT ![Len(@)] = nan] ELSE @,
        !.adx    = IF "adx"    \in series THEN [@ EXCEPT ![Len(@)] = nan] ELSE @ ]

\* One call of evaluate on the four candles of EvaluateRows and the 1h
\* candle of TrackerHour, with any of the latest values undefined.
CallEvaluateUndefined ==
    \E undefined_15m \in SUBSET {"close", "ema50", "ema200", "rsi", "adx"},
       undefined_1h \in SUBSET {"rsi", "adx"},
       regime_state \in EvaluateRegimes :
      LET data_15m == WithUndefined(AppendCandles(IndicatorData("15m"),
                                                  EvaluateRows),
                                    undefined_15m)
          data_1h  == WithUndefined(TrackerHour, undefined_1h)
      IN  /\ ret.call = "none"
          /\ ret' = [ call          |-> "evaluate",
                      undefined_15m |-> undefined_15m,
                      undefined_1h  |-> undefined_1h,
                      data_15m      |-> data_15m,
                      data_1h       |-> data_1h,
                      regime_state  |-> regime_state,
                      result        |-> evaluate(ScaledConfig, "BTCUSDT", "15m",
                                                 data_15m, data_1h,
                                                 regime_state) ]
          /\ UNCHANGED <<market_data, regimes, stats, outbox, cycle>>

SpecUndefined == Init /\ [][CallEvaluateUndefined]_vars

\* The call went on from the price-above-EMA200 precondition to the
\* compulsory criteria.
PastPricePrecondition ==
    /\ ret.result.exc = "none"
    /\ ret.result.features # None
    /\ ~le(Last(ret.data_15m.close), Last(ret.data_15m.ema200))

\* C24: when the latest value of a series the evaluator reads (15m close,
\* EMA50, EMA200, RSI, ADX, 1h RSI, ADX) is undefined, evaluate returns no
\* Signal and the check that reads the value does not pass; an undefined
\* latest close or EMA200 does not get past the price-above-EMA200
\* precondition.
UndefinedComparesFalse ==
    ( /\ ret.call = "evaluate"
      /\ ret.undefined_15m \cup ret.undefined_1h # {} )
    =>
      /\ ret.result.signal = None
      /\ ret.undefined_15m \cap {"close", "ema200"} # {}
           => ~PastPricePrecondition
      /\ ret.result.features # None =>
           /\ "adx" \in ret.undefined_15m \cup ret.undefined_1h
                => ~ret.result.features.trend_ok
           /\ "rsi" \in ret.undefined_15m \cup ret.undefined_1h
                => ~ret.result.features.momentum_ok
           /\ ret.undefined_15m \cap {"ema50", "ema200"} # {}
                => ~ret.result.features.expanding
           /\ "ema200" \in ret.undefined_15m
                => ~ret.result.features.slope_rising

\* ------------------------------------------------------------------------
\* Independence of the pairs in the RegimeTracker table
\* ------------------------------------------------------------------------

\* C25: process_update for one (symbol, timeframe) takes the regime of that
\* pair as it finds it in the table, leaves behind what
\* process_candle_update made of it, and leaves the state of every other
\* pair (active cross, alert flags, last_check_index) as it was;
\* reset_all_regimes(symbol) resets the regimes of that symbol and leaves
\* those of every other symbol as they were.
PairIndependence ==
    [][ /\ ret'.call = "process_update" =>
            LET key == _get_key(ret'.symbol, ret'.timeframe)
            IN  /\ DOMAIN regimes' = DOMAIN regimes \cup {key}
                /\ \A k \in DOMAIN regimes \ {key} : regimes'[k] = regimes[k]
                /\ ret'.before = get_regime(regimes, key[1], key[2])[key]
                /\ ret'.exc = "none" =>
                     regimes'[key]
                       = process_candle_update(ScaledConfig, ret'.symbol,
                             ret'.timeframe,
                             market_data'[key[1]]["15m"],
                             market_data'[key[1]]["1h"],
                             ret'.before).regime
        /\ (ret'.call = "reset_all_regimes" /\ ret'.symbol # "") =>
            /\ DOMAIN regimes' = DOMAIN regimes
            /\ \A k \in DOMAIN regimes :
                 IF k[1] = upper(ret'.symbol)
                 THEN regimes'[k] = reset(regimes[k])
                 ELSE regimes'[k] = regimes[k] ]_vars

\* C25's case: process_update armed one symbol while the regime of the
\* other symbol was armed with its alert sent.
PairIndependenceWitness ==
    /\ ret.call = "process_update"
    /\ upper(ret.symbol) = "BTCUSDT"
    /\ ret.before.active_cross = None
    /\ regimes[<<"BTCUSDT", "15m">>].active_cross # None
    /\ <<"ETHUSDT", "15m">> \in DOMAIN regimes
    /\ regimes[<<"ETHUSDT", "15m">>].active_cross # None
    /\ regimes[<<"ETHUSDT", "15m">>].sent_confirmed_alert

\* ------------------------------------------------------------------------
\* The live pipeline: every fetch returns the latest LiveLimit candles
\* ------------------------------------------------------------------------

\* Candles a fetch returns (run_once passes limit=500), the most candles the
\* exchange produces in a run of the model, and the most process_update
\* calls.
LiveLimit == 4

LiveCandles == 8

LiveEvaluations == 6

\* One cycle of run_once for one symbol: the first fetch returns LiveLimit
\* candles, a later one the latest LiveLimit candles after none or one more
\* candle has closed, and process_update runs on them.
LiveProcessUpdate ==
    \E symbol_in \in SymbolInputs :
      LET prev  == Fetched15m(symbol_in)
          first == prev.close = << >>
          seen  == IF first THEN 0 ELSE Last(prev.open_time) + 1
      IN  /\ stats.total_evaluations < LiveEvaluations
          /\ UNCHANGED cycle
          /\ \E n \in (IF first THEN {LiveLimit} ELSE {0, 1}) :
               /\ seen + n <= LiveCandles
               /\ \E rows \in [1..n -> CandleRows] :
                    process_update(ScaledConfig, symbol_in, "15m",
                        fetch_and_calculate_indicators(prev, rows, LiveLimit),
                        TrackerHour)

SpecLive == Init /\ [][LiveProcessUpdate]_vars

\* C26: with bundles of one fixed length that slide forward by one index
\* per closed candle, a regime armed by a bullish cross is idle again once
\* more than evaluation_window candles have closed since the cross candle
\* (no newer bullish cross having replaced it): after every update, the
\* candle of the active cross is at most evaluation_window candles before
\* the latest candle.
EventualExpiry ==
    ( /\ Called
      /\ Len(Given15m.close) = LiveLimit
      /\ After.active_cross # None )
    => Last(Given15m.open_time) - After.active_cross.open_time
         <= ScaledConfig.evaluation_window

\* C27: at every evaluation (an update that computes the features), the
\* cross_index of the active cross, read as an index into the 15m bundle of
\* the update, is the index of the candle on which the crossover occurred.
StableCrossReference ==
    ( /\ Called
      /\ ret.features # None )
    => /\ ret.armed.active_cross.cross_index < Len(Given15m.open_time)
       /\ At(Given15m.open_time, ret.armed.active_cross.cross_index)
            = ret.armed.active_cross.open_time

\* ------------------------------------------------------------------------
\* process_update, reset_symbol and reset_all in any order
\* ------------------------------------------------------------------------

\* Most candles of the exchange and most process_update calls in a run of
\* the model with resets.
ResetCandles == 6

ResetEvaluations == 3

\* One cycle for one symbol, as ProcessUpdate: the bundle is the whole
\* series so far, with none or one more candle on every later fetch.
ResetProcessUpdate ==
    \E symbol_in \in SymbolInputs :
      LET prev  == Fetched15m(symbol_in)
          first == prev.close = << >>
          seen  == IF first THEN 0 ELSE Last(prev.open_time) + 1
      IN  /\ stats.total_evaluations < ResetEvaluations
          /\ UNCHANGED cycle
          /\ \E n \in (IF first THEN 1..ResetCandles ELSE {0, 1}) :
               /\ seen + n <= ResetCandles
               /\ \E rows \in [1..n -> CandleRows] :
                    process_update(ScaledConfig, symbol_in, "15m",
                        AppendCandles(prev, rows), TrackerHour)

\* TradingBot.reset_symbol(symbol)
ResetSymbol ==
    \E symbol \in SymbolInputs \cup {"ethusdt"} :
      /\ regimes' = reset_all_regimes(regimes, upper(symbol))
      /\ ret' = [NoCall EXCEPT !.call = "reset_symbol", !.symbol = symbol]
      /\ UNCHANGED <<market_data, stats, outbox, cycle>>

\* TradingBot.reset_all()
ResetAll ==
    /\ regimes' = reset_all_regimes(regimes, "")
    /\ ret' = [NoCall EXCEPT !.call = "reset_all"]
    /\ UNCHANGED <<market_data, stats, outbox, cycle>>

ResetNext == ResetProcessUpdate \/ ResetSymbol \/ ResetAll

SpecReset == Init /\ [][ResetNext]_vars

\* C28: in every regime of the table, whatever process_update, reset_symbol
\* and reset_all calls led to it, sent_confirmed_alert implies that an
\* active cross is present, and sent_early_alert is false.
AlertFlagImpliesArmed ==
    \A k \in DOMAIN regimes :
      /\ regimes[k].sent_confirmed_alert => regimes[k].active_cross # None
      /\ ~regimes[k].sent_early_alert

\* C28's case: a regime that had alerted and was idle again (reset or
\* expired) was armed by an update and has its alert flag set again.
AlertFlagImpliesArmedWitness ==
    /\ Called
    /\ Len(outbox) = 2
    /\ ret.before.active_cross = None
    /\ After.sent_confirmed_alert
    /\ After.active_cross # None

\* ------------------------------------------------------------------------
\* A Signal on the candle of the cross
\* ------------------------------------------------------------------------

\* Every 15m bundle of 1 to MaxCandles candles of CandleRows.
AnyBundles ==
    { AppendCandles(IndicatorData("15m"), rows) :
        rows \in UNION { [1..n -> CandleRows] : n \in 1..MaxCandles } }

\* C29: there is an update in which evaluate installs a bullish cross whose
\* cross_index is the latest index of the 15m bundle (no candle has closed
\* since the cross) and returns a Signal: some bundle, some 1h candle and
\* some regime (one of the table or any other) give such a call.
SignalOnCrossCandle ==
    \E data_15m \in AnyBundles, hour \in HourRows,
       regime_state \in EvaluateRegimes
                          \cup { regimes[k] : k \in DOMAIN regimes } :
      LET ev == evaluate(ScaledConfig, "BTCUSDT", "15m", data_15m,
                         AppendCandle(IndicatorData("1h"), hour), regime_state)
      IN  /\ ev.exc = "none"
          /\ detect_cross("BTCUSDT", "15m", data_15m,
                          ScaledConfig.cross_lookback) # None
          /\ ev.armed.active_cross
               = detect_cross("BTCUSDT", "15m", data_15m,
                              ScaledConfig.cross_lookback)
          /\ ev.armed.active_cross.cross_index = Len(data_15m.close) - 1
          /\ ev.signal # None

\* ------------------------------------------------------------------------
\* SignalEvaluator.get_evaluation_status
\* ------------------------------------------------------------------------

\* The status dictionary (the message text left out) of an evaluator whose
\* evaluation_window is `evaluation_window`.
get_evaluation_status(evaluation_window, regime_state, current_data_length) ==
    IF regime_state.active_cross = None
    THEN [ status |-> "waiting", active_cross |-> FALSE ]
    ELSE
      LET current_index == current_data_length - 1
          candles_since == candles_since_cross(regime_state.active_cross,
                                               current_index)
          remaining     == evaluation_window - candles_since
      IN  IF remaining > 0
          THEN [ status               |-> "evaluating",
                 active_cross         |-> TRUE,
                 candles_since_cross  |-> candles_since,
                 candles_remaining    |-> remaining,
                 window_size          |-> evaluation_window,
                 early_alert_sent     |-> regime_state.sent_early_alert,
                 confirmed_alert_sent |-> regime_state.sent_confirmed_alert ]
          ELSE [ status              |-> "expired",
                 active_cross        |-> TRUE,
                 candles_since_cross |-> candles_since ]

\* One call evaluator.get_evaluation_status(regime_state, current_data_length)
\* on an evaluator with any evaluation_window.
CallGetEvaluationStatus ==
    \E regime_state \in RegimeInputs,
       current_data_length \in 1..(MaxCurrentIndex + 1),
       evaluation_window \in 0..MaxWindow :
      /\ ret' = [ call                |-> "get_evaluation_status",
                  evaluation_window   |-> evaluation_window,
                  regime_state        |-> regime_state,
                  current_data_length |-> current_data_length,
                  result              |-> get_evaluation_status(
                                             evaluation_window, regime_state,
                                             current_data_length) ]
      /\ UNCHANGED <<market_data, regimes, stats, outbox, cycle>>

SpecStatus == Init /\ [][CallGetEvaluationStatus]_vars

\* C30: the status is "waiting" iff the regime has no active cross,
\* "evaluating" iff should_evaluate(current_index, evaluation_window) is
\* true, and "expired" iff there is an active cross and should_evaluate is
\* false, also when candles-since-cross equals evaluation_window.
StatusAgreesWithShouldEvaluate ==
    ret.call = "get_evaluation_status" =>
      LET evaluating == should_evaluate(ret.regime_state,
                                        ret.current_data_length - 1,
                                        ret.evaluation_window)
      IN  /\ (ret.result.status = "waiting")
               = (ret.regime_state.active_cross = None)
          /\ (ret.result.status = "evaluating") = evaluating
          /\ (ret.result.status = "expired")
               = (ret.regime_state.active_cross # None /\ ~evaluating)

====
